---- MODULE Spec2Model ----
(***************************************************************************)
(* Session engine of grove (internal/ui): the App model of app.go with its *)
(* List, Details, Tabs, ActionMenu, ConfirmDialog, CreateForm and Feedback *)
(* components, the commands it returns to the bubbletea runtime, and the   *)
(* git adapter of internal/git/worktree.go that it calls.                  *)
(*                                                                         *)
(* Strings that the program edits or compares (paths, branch names) are    *)
(* sequences of one-character strings.  A *ListItem is the record of its   *)
(* ID and Title; the nil pointer is NilItem.  A tea.Cmd is the sequence of *)
(* the messages it will deliver (<<>> is the nil command); the runtime     *)
(* runs every command concurrently, so delivered-later messages live in    *)
(* the bag `pending` and are taken from it in any order.                   *)
(***************************************************************************)
EXTENDS Integers, Sequences, FiniteSets, Bags, TLC

\* ---------------------------------------------------------------- bounds
\* longest text the user types into one field of the Creation Form
MaxLen == 1
\* most messages of returned commands that are not yet delivered
MaxPending == 1

\* ------------------------------------------------------- input alphabets
\* worktrees registered in the repository when the session starts
InitialRepo == << <<"m">>, <<"w">> >>
\* printable keys the user presses (tea.KeyRunes with one rune)
Runes == {"q", "n", "p", "y", "f", "j", "k"}
\* of these, the ones the user types into the Creation Form (the form
\* inserts every rune alike)
FormRunes == {"q"}
\* the other key types the engine and its surfaces look at
SpecialKeys == {"ctrl+c", "tab", "shift+tab", "enter", "esc", "up", "down",
                "pgup", "pgdown", "left", "right", "backspace", "space"}
Keys == SpecialKeys \cup Runes
\* terminal sizes of resize events, <<width, height>>
Sizes == { <<0, 0>>, <<10, 6>> }
MouseButtons == {"left", "wheelup", "wheeldown"}
MouseXs == {0, 13, 30}
MouseYs == {0, 3, 4, 6}

\* ------------------------------------------------------------- constants
TabWorktrees == 0
TabBranches == 1
TabSettings == 2
TabCount == 3
FieldBranch == 0
FieldPath == 1
FieldCreateNewBranch == 2

EmptyStr == <<>>
NilItem == [ID |-> EmptyStr, Title |-> EmptyStr]
NoCmd == <<>>

Min(a, b) == IF a < b THEN a ELSE b
Max(a, b) == IF a > b THEN a ELSE b

\* ------------------------------------------------------------- messages
Msg0 == [type |-> "", action |-> "", item |-> NilItem, confirmed |-> FALSE,
         force |-> FALSE, data |-> [kind |-> "nil", item |-> NilItem],
         branch |-> EmptyStr, path |-> EmptyStr, createBranch |-> FALSE]
NilData == [kind |-> "nil", item |-> NilItem]
ItemData(it) == [kind |-> "item", item |-> it]
PruneData == [kind |-> "prune", item |-> NilItem]

ActionExecutedMsg(action, it) ==
    [Msg0 EXCEPT !.type = "ActionExecutedMsg", !.action = action, !.item = it]
ConfirmDialogResultMsg(confirmed, force, data) ==
    [Msg0 EXCEPT !.type = "ConfirmDialogResultMsg", !.confirmed = confirmed,
                 !.force = force, !.data = data]
CreateFormSubmittedMsg(branch, path, createBranch) ==
    [Msg0 EXCEPT !.type = "CreateFormSubmittedMsg", !.branch = branch,
                 !.path = path, !.createBranch = createBranch]
CreateFormCancelledMsg == [Msg0 EXCEPT !.type = "CreateFormCancelledMsg"]
ClearFeedbackMsg == [Msg0 EXCEPT !.type = "ClearFeedbackMsg"]
QuitMsg == [Msg0 EXCEPT !.type = "QuitMsg"]
\* tea.Quit: the command whose message ends the program
Quit == <<QuitMsg>>

\* ----------------------------------------------------------------- List
NewList(items) ==
    [items |-> items, selected |-> 0, width |-> 0, height |-> 0,
     offsetX |-> 0, offsetY |-> 0]

\* SetItems going back to the first row whenever the items are replaced
List_SetItems_ResetSelection(l, items) == [l EXCEPT !.items = items, !.selected = 0]
\* SetItems without the clamp of the selection
List_SetItems_NoClamp(l, items) == [l EXCEPT !.items = items]

List_SetItems(l, items) ==
    [l EXCEPT !.items = items,
              !.selected = IF Len(items) = 0 THEN 0
                           ELSE IF l.selected >= Len(items) THEN Len(items) - 1
                           ELSE l.selected]

List_SetSelected(l, index) ==
    [l EXCEPT !.selected = IF Len(l.items) = 0 THEN 0
                           ELSE IF index < 0 THEN 0
                           ELSE IF index >= Len(l.items) THEN Len(l.items) - 1
                           ELSE index]

\* items are 0-indexed in the program, 1-indexed in the sequence
List_SelectedItem(l) ==
    IF Len(l.items) = 0 \/ l.selected < 0 \/ l.selected >= Len(l.items)
    THEN NilItem
    ELSE l.items[l.selected + 1]

List_MoveDown(l) ==
    IF Len(l.items) = 0 THEN l
    ELSE IF l.selected < Len(l.items) - 1 THEN [l EXCEPT !.selected = @ + 1]
    ELSE l

\* MoveUp going from the first row round to the last
List_MoveUp_Wrap(l) ==
    IF Len(l.items) = 0 THEN l
    ELSE IF l.selected > 0 THEN [l EXCEPT !.selected = @ - 1]
    ELSE [l EXCEPT !.selected = Len(l.items) - 1]
List_MoveUp(l) ==
    IF Len(l.items) = 0 THEN l
    ELSE IF l.selected > 0 THEN [l EXCEPT !.selected = @ - 1]
    ELSE l

\* PageDown taking the height as the page even when it is zero
List_PageDown_ZeroPage(l) ==
    IF Len(l.items) = 0 THEN l
    ELSE LET s == l.selected + l.height
         IN [l EXCEPT !.selected = IF s >= Len(l.items) THEN Len(l.items) - 1 ELSE s]
\* PageDown without the clamp to the last row
List_PageDown_NoClamp(l) ==
    IF Len(l.items) = 0 THEN l
    ELSE [l EXCEPT !.selected = @ + Max(l.height, 1)]
List_PageDown(l) ==
    IF Len(l.items) = 0 THEN l
    ELSE LET pageSize == IF l.height < 1 THEN 1 ELSE l.height
             s == l.selected + pageSize
         IN [l EXCEPT !.selected = IF s >= Len(l.items) THEN Len(l.items) - 1 ELSE s]

List_PageUp(l) ==
    IF Len(l.items) = 0 THEN l
    ELSE LET pageSize == IF l.height < 1 THEN 1 ELSE l.height
             s == l.selected - pageSize
         IN [l EXCEPT !.selected = IF s < 0 THEN 0 ELSE s]

List_SetSize(l, w, h) == [l EXCEPT !.width = w, !.height = h]
List_SetOffset(l, x, y) == [l EXCEPT !.offsetX = x, !.offsetY = y]

\* IsInBounds looking at the column only
List_IsInBounds_ColumnOnly(l, x, y) == x >= l.offsetX /\ x < l.offsetX + l.width
List_IsInBounds(l, x, y) ==
    /\ x >= l.offsetX /\ x < l.offsetX + l.width
    /\ y >= l.offsetY /\ y < l.offsetY + l.height

List_UpdateKey(l, k) ==
    CASE k = "down" -> List_MoveDown(l)
      [] k = "up" -> List_MoveUp(l)
      [] k = "pgdown" -> List_PageDown(l)
      [] k = "pgup" -> List_PageUp(l)
      [] k = "j" -> List_MoveDown(l)
      [] k = "k" -> List_MoveUp(l)
      [] OTHER -> l

List_UpdateMouse(l, button, x, y) ==
    CASE button = "left" ->
            IF Len(l.items) > 0 /\ List_IsInBounds(l, x, y)
            THEN LET clickedIndex == y - l.offsetY
                 IN IF clickedIndex >= 0 /\ clickedIndex < Len(l.items)
                    THEN List_SetSelected(l, clickedIndex)
                    ELSE l
            ELSE l
      [] button = "wheeldown" -> List_MoveDown(l)
      [] button = "wheelup" -> List_MoveUp(l)
      [] OTHER -> l

\* ----------------------------------------------------------------- Tabs
NewTabs == [active |-> TabWorktrees, width |-> 0]
Tabs_SetActive(t, tab) ==
    IF tab >= 0 /\ tab < TabCount THEN [t EXCEPT !.active = tab] ELSE t
Tabs_Next(t) == [t EXCEPT !.active = (@ + 1) % TabCount]
Tabs_Prev(t) == [t EXCEPT !.active = (@ - 1 + TabCount) % TabCount]
Tabs_SetWidth(t, w) == [t EXCEPT !.width = w]

\* len(name)+4 columns per tab: Worktrees 13, Branches 12, Settings 12
GetTabPositions ==
    << [Tab |-> TabWorktrees, StartX |-> 0, EndX |-> 13],
       [Tab |-> TabBranches, StartX |-> 13, EndX |-> 25],
       [Tab |-> TabSettings, StartX |-> 25, EndX |-> 37] >>

Tabs_UpdateKey(t, k) ==
    CASE k = "tab" -> Tabs_Next(t)
      [] k = "shift+tab" -> Tabs_Prev(t)
      [] OTHER -> t

Tabs_UpdateMouse(t, button, x, y) ==
    IF button = "left" /\ y = 0
    THEN LET hits == {i \in 1..TabCount :
                        x >= GetTabPositions[i].StartX /\ x < GetTabPositions[i].EndX}
         IN IF hits = {} THEN t
            ELSE Tabs_SetActive(t, GetTabPositions[CHOOSE i \in hits : \A j \in hits : i <= j].Tab)
    ELSE t

\* -------------------------------------------------------------- Details
NewDetails == [item |-> NilItem, width |-> 0, height |-> 0]
Details_SetItem(d, it) == [d EXCEPT !.item = it]
Details_SetSize(d, w, h) == [d EXCEPT !.width = w, !.height = h]

\* ----------------------------------------------------------- ActionMenu
defaultWorktreeActions == <<"open", "cd", "delete">>
NewActionMenu == [visible |-> FALSE, item |-> NilItem, selected |-> 0]
ActionMenu_Show(m, it) == [m EXCEPT !.visible = TRUE, !.item = it, !.selected = 0]
ActionMenu_Hide(m) == [m EXCEPT !.visible = FALSE, !.item = NilItem, !.selected = 0]
ActionMenu_MoveUp(m) ==
    IF Len(defaultWorktreeActions) = 0 THEN m
    ELSE IF m.selected > 0 THEN [m EXCEPT !.selected = @ - 1] ELSE m
ActionMenu_MoveDown(m) ==
    IF Len(defaultWorktreeActions) = 0 THEN m
    ELSE IF m.selected < Len(defaultWorktreeActions) - 1
         THEN [m EXCEPT !.selected = @ + 1] ELSE m

\* the new menu and the command it returns
ActionMenu_Update(m, k) ==
    IF ~m.visible THEN [s |-> m, cmd |-> NoCmd]
    ELSE CASE k = "esc" -> [s |-> ActionMenu_Hide(m), cmd |-> NoCmd]
           [] k = "enter" ->
                IF m.selected >= 0 /\ m.selected < Len(defaultWorktreeActions)
                THEN [s |-> ActionMenu_Hide(m),
                      cmd |-> <<ActionExecutedMsg(defaultWorktreeActions[m.selected + 1], m.item)>>]
                ELSE [s |-> m, cmd |-> NoCmd]
           [] k = "up" -> [s |-> ActionMenu_MoveUp(m), cmd |-> NoCmd]
           [] k = "down" -> [s |-> ActionMenu_MoveDown(m), cmd |-> NoCmd]
           [] k = "k" -> [s |-> ActionMenu_MoveUp(m), cmd |-> NoCmd]
           [] k = "j" -> [s |-> ActionMenu_MoveDown(m), cmd |-> NoCmd]
           [] OTHER -> [s |-> m, cmd |-> NoCmd]

\* -------------------------------------------------------- ConfirmDialog
\* message (a text built next to the title), cancelLabel (never set) and the
\* size (read by View only) are left out
NewConfirmDialog ==
    [visible |-> FALSE, title |-> "", confirmLabel |-> "Confirm",
     dangerMode |-> FALSE, forceOption |-> FALSE, forceSelected |-> FALSE,
     selected |-> 0, data |-> NilData]

\* Show leaving the choice where the last use moved it
ConfirmDialog_Show_KeepSelection(d, title) ==
    [d EXCEPT !.visible = TRUE, !.title = title,
              !.forceSelected = FALSE, !.data = NilData]
ConfirmDialog_Show(d, title) ==
    [d EXCEPT !.visible = TRUE, !.title = title, !.selected = 1,
              !.forceSelected = FALSE, !.data = NilData]
ConfirmDialog_ShowWithData(d, title, data) ==
    [ConfirmDialog_Show(d, title) EXCEPT !.data = data]
\* ShowDanger calling Show where it calls ShowWithData: the data is dropped
ConfirmDialog_ShowDanger_NoData(d, title, data) ==
    [ConfirmDialog_Show(d, title) EXCEPT !.dangerMode = TRUE]
ConfirmDialog_ShowDanger(d, title, data) ==
    [ConfirmDialog_ShowWithData(d, title, data) EXCEPT !.dangerMode = TRUE]
ConfirmDialog_SetForceOption(d, enabled) == [d EXCEPT !.forceOption = enabled]
ConfirmDialog_SetConfirmLabel(d, label) == [d EXCEPT !.confirmLabel = label]
\* Hide keeping the payload of the use that ends
ConfirmDialog_Hide_KeepData(d) ==
    [d EXCEPT !.visible = FALSE, !.dangerMode = FALSE, !.forceOption = FALSE,
              !.forceSelected = FALSE, !.selected = 1]
\* the title and the confirm label are not assigned
ConfirmDialog_Hide(d) ==
    [d EXCEPT !.visible = FALSE, !.dangerMode = FALSE, !.forceOption = FALSE,
              !.forceSelected = FALSE, !.data = NilData, !.selected = 1]
ConfirmDialog_MoveLeft(d) == IF d.selected > 0 THEN [d EXCEPT !.selected = @ - 1] ELSE d
ConfirmDialog_MoveRight(d) == IF d.selected < 1 THEN [d EXCEPT !.selected = @ + 1] ELSE d
\* ToggleForce without the test of forceOption
ConfirmDialog_ToggleForce_Always(d) == [d EXCEPT !.forceSelected = ~@]
ConfirmDialog_ToggleForce(d) ==
    IF d.forceOption THEN [d EXCEPT !.forceSelected = ~@] ELSE d

ConfirmDialog_Update(d, k) ==
    IF ~d.visible THEN [s |-> d, cmd |-> NoCmd]
    ELSE CASE k = "esc" ->
                [s |-> ConfirmDialog_Hide(d),
                 cmd |-> <<ConfirmDialogResultMsg(FALSE, FALSE, NilData)>>]
           [] k = "enter" ->
                [s |-> ConfirmDialog_Hide(d),
                 cmd |-> <<ConfirmDialogResultMsg(d.selected = 0, d.forceSelected, d.data)>>]
           [] k \in {"left", "shift+tab"} -> [s |-> ConfirmDialog_MoveLeft(d), cmd |-> NoCmd]
           [] k \in {"right", "tab"} -> [s |-> ConfirmDialog_MoveRight(d), cmd |-> NoCmd]
           [] k = "h" -> [s |-> ConfirmDialog_MoveLeft(d), cmd |-> NoCmd]
           [] k = "l" -> [s |-> ConfirmDialog_MoveRight(d), cmd |-> NoCmd]
           [] k = "y" ->
                [s |-> ConfirmDialog_Hide(d),
                 cmd |-> <<ConfirmDialogResultMsg(TRUE, d.forceSelected, d.data)>>]
           [] k = "n" ->
                [s |-> ConfirmDialog_Hide(d),
                 cmd |-> <<ConfirmDialogResultMsg(FALSE, FALSE, NilData)>>]
           [] k = " " -> [s |-> ConfirmDialog_ToggleForce(d), cmd |-> NoCmd]
           [] k = "f" -> [s |-> ConfirmDialog_ToggleForce(d), cmd |-> NoCmd]
           [] OTHER -> [s |-> d, cmd |-> NoCmd]

\* ----------------------------------------------------------- CreateForm
NewCreateForm ==
    [visible |-> FALSE, focused |-> FieldBranch, branch |-> EmptyStr,
     path |-> EmptyStr, createBranch |-> TRUE, cursorPos |-> 0,
     errorMessage |-> ""]

CreateForm_Show(f) ==
    [f EXCEPT !.visible = TRUE, !.focused = FieldBranch, !.branch = EmptyStr,
              !.path = EmptyStr, !.createBranch = TRUE, !.cursorPos = 0,
              !.errorMessage = ""]

CreateForm_Hide(f) == [f EXCEPT !.visible = FALSE, !.errorMessage = ""]

\* focusNext leaving the cursor where it was in the field before
focusNext_KeepCursor(f) ==
    CASE f.focused = FieldBranch -> [f EXCEPT !.focused = FieldPath]
      [] f.focused = FieldPath -> [f EXCEPT !.focused = FieldCreateNewBranch]
      [] f.focused = FieldCreateNewBranch -> [f EXCEPT !.focused = FieldBranch]
focusNext(f) ==
    CASE f.focused = FieldBranch ->
            [f EXCEPT !.focused = FieldPath, !.cursorPos = Len(f.path)]
      [] f.focused = FieldPath ->
            [f EXCEPT !.focused = FieldCreateNewBranch, !.cursorPos = 0]
      [] f.focused = FieldCreateNewBranch ->
            [f EXCEPT !.focused = FieldBranch, !.cursorPos = Len(f.branch)]

focusPrev(f) ==
    CASE f.focused = FieldBranch ->
            [f EXCEPT !.focused = FieldCreateNewBranch, !.cursorPos = 0]
      [] f.focused = FieldPath ->
            [f EXCEPT !.focused = FieldBranch, !.cursorPos = Len(f.branch)]
      [] f.focused = FieldCreateNewBranch ->
            [f EXCEPT !.focused = FieldPath, !.cursorPos = Len(f.path)]

\* validate without the test of the path
validate_PathOptional(f) ==
    IF f.branch = EmptyStr /\ f.createBranch THEN "Branch name is required"
    ELSE IF f.branch = EmptyStr /\ ~f.createBranch THEN "Existing branch name is required"
    ELSE ""
\* the error message validate() leaves; "" when the input is valid
validate(f) ==
    IF f.branch = EmptyStr /\ f.createBranch THEN "Branch name is required"
    ELSE IF f.branch = EmptyStr /\ ~f.createBranch THEN "Existing branch name is required"
    ELSE IF f.path = EmptyStr THEN "Path is required"
    ELSE ""

\* submit reporting the path as the branch and the branch as the path
submit_SwappedFields(f) ==
    IF validate(f) # ""
    THEN [s |-> [f EXCEPT !.errorMessage = validate(f)], cmd |-> NoCmd]
    ELSE [s |-> CreateForm_Hide([f EXCEPT !.errorMessage = ""]),
          cmd |-> <<CreateFormSubmittedMsg(f.path, f.branch, f.createBranch)>>]
\* submit reporting the form's default for the new-branch toggle
submit_DefaultToggle(f) ==
    IF validate(f) # ""
    THEN [s |-> [f EXCEPT !.errorMessage = validate(f)], cmd |-> NoCmd]
    ELSE [s |-> CreateForm_Hide([f EXCEPT !.errorMessage = ""]),
          cmd |-> <<CreateFormSubmittedMsg(f.branch, f.path, TRUE)>>]

submit(f) ==
    IF validate(f) # ""
    THEN [s |-> [f EXCEPT !.errorMessage = validate(f)], cmd |-> NoCmd]
    ELSE [s |-> CreateForm_Hide([f EXCEPT !.errorMessage = ""]),
          cmd |-> <<CreateFormSubmittedMsg(f.branch, f.path, f.createBranch)>>]

\* s[:pos] + char + s[pos:], pos clamped to len(s) first
InsertAt(s, pos, char) ==
    LET p == IF pos > Len(s) THEN Len(s) ELSE pos
    IN SubSeq(s, 1, p) \o <<char>> \o SubSeq(s, p + 1, Len(s))

insertChar(f, char) ==
    CASE f.focused = FieldBranch ->
            [f EXCEPT !.branch = InsertAt(f.branch, f.cursorPos, char),
                      !.cursorPos = Min(f.cursorPos, Len(f.branch)) + 1]
      [] f.focused = FieldPath ->
            [f EXCEPT !.path = InsertAt(f.path, f.cursorPos, char),
                      !.cursorPos = Min(f.cursorPos, Len(f.path)) + 1]
      [] OTHER -> f

\* s[:pos-1] + s[pos:]; the program panics when pos > len(s)
DeleteBefore(s, pos) == SubSeq(s, 1, pos - 1) \o SubSeq(s, pos + 1, Len(s))

deleteChar(f) ==
    CASE f.focused = FieldBranch ->
            IF f.cursorPos > 0 /\ Len(f.branch) > 0
            THEN [f EXCEPT !.branch = DeleteBefore(f.branch, f.cursorPos),
                           !.cursorPos = @ - 1]
            ELSE f
      [] f.focused = FieldPath ->
            IF f.cursorPos > 0 /\ Len(f.path) > 0
            THEN [f EXCEPT !.path = DeleteBefore(f.path, f.cursorPos),
                           !.cursorPos = @ - 1]
            ELSE f
      [] OTHER -> f

\* deleteChar slices past the end of the field: a runtime panic
deleteCharPanics(f) ==
    \/ f.focused = FieldBranch /\ f.cursorPos > 0 /\ Len(f.branch) > 0
                               /\ f.cursorPos > Len(f.branch)
    \/ f.focused = FieldPath /\ f.cursorPos > 0 /\ Len(f.path) > 0
                             /\ f.cursorPos > Len(f.path)

CreateForm_Update(f, k) ==
    IF ~f.visible THEN [s |-> f, cmd |-> NoCmd]
    ELSE CASE k = "esc" -> [s |-> CreateForm_Hide(f), cmd |-> <<CreateFormCancelledMsg>>]
           [] k = "enter" -> submit(f)
           [] k = "tab" -> [s |-> focusNext(f), cmd |-> NoCmd]
           [] k = "shift+tab" -> [s |-> focusPrev(f), cmd |-> NoCmd]
           [] k = "backspace" -> [s |-> deleteChar(f), cmd |-> NoCmd]
           [] k = "left" ->
                [s |-> IF f.focused \in {FieldBranch, FieldPath} /\ f.cursorPos > 0
                       THEN [f EXCEPT !.cursorPos = @ - 1] ELSE f,
                 cmd |-> NoCmd]
           [] k = "right" ->
                [s |-> IF f.focused = FieldBranch
                       THEN (IF f.cursorPos < Len(f.branch)
                             THEN [f EXCEPT !.cursorPos = @ + 1] ELSE f)
                       ELSE IF f.focused = FieldPath
                       THEN (IF f.cursorPos < Len(f.path)
                             THEN [f EXCEPT !.cursorPos = @ + 1] ELSE f)
                       ELSE f,
                 cmd |-> NoCmd]
           [] k = "space" ->
                [s |-> IF f.focused = FieldCreateNewBranch
                       THEN [f EXCEPT !.createBranch = ~@]
                       ELSE insertChar(f, " "),
                 cmd |-> NoCmd]
           [] k \in Runes -> [s |-> insertChar(f, k), cmd |-> NoCmd]
           [] OTHER -> [s |-> f, cmd |-> NoCmd]

\* ------------------------------------------------------------- Feedback
FeedbackSuccess == 0
FeedbackError == 1
FeedbackInfo == 2
NewFeedback == [message |-> "", feedbackType |-> FeedbackSuccess, visible |-> FALSE]
\* a Show that starts no timer
scheduleClear_None == NoCmd
\* every Show returns scheduleClear(): one ClearFeedbackMsg after the duration
scheduleClear == <<ClearFeedbackMsg>>
Feedback_ShowSuccess(f, message) ==
    [s |-> [f EXCEPT !.message = message, !.feedbackType = FeedbackSuccess, !.visible = TRUE],
     cmd |-> scheduleClear]
Feedback_ShowError(f, message) ==
    [s |-> [f EXCEPT !.message = message, !.feedbackType = FeedbackError, !.visible = TRUE],
     cmd |-> scheduleClear]
Feedback_ShowInfo(f, message) ==
    [s |-> [f EXCEPT !.message = message, !.feedbackType = FeedbackInfo, !.visible = TRUE],
     cmd |-> scheduleClear]
Feedback_Clear(f) == [f EXCEPT !.visible = FALSE, !.message = ""]
\* Update letting the clear signal pass
Feedback_Update_KeepMessage(f, m) == f
Feedback_Update(f, m) == IF m.type = "ClearFeedbackMsg" THEN Feedback_Clear(f) ELSE f

\* ---------------------------------------------------------- git adapter
\* filepath.Base over a path without trailing separators
RECURSIVE Base(_)
Base(p) ==
    IF p = EmptyStr THEN <<".">>
    ELSE IF \A i \in 1..Len(p) : p[i] # "/" THEN p
    ELSE Base(Tail(p))

Call0 == [op |-> "", path |-> EmptyStr, branch |-> EmptyStr,
          createBranch |-> FALSE, force |-> FALSE, result |-> "",
          tool |-> <<>>]
InRepo(rp, path) == \E i \in 1..Len(rp) : rp[i] = path
RemoveAt(sq, S) ==
    LET F[i \in 0..Len(sq)] ==
          IF i = 0 THEN <<>>
          ELSE IF i \in S THEN F[i - 1] ELSE Append(F[i - 1], sq[i])
    IN F[Len(sq)]

\* an adapter function that runs its command wherever it is called
Runs_Always(isR, valid, command) == <<"rev-parse", command>>
\* the processes an adapter function starts: IsGitRepository runs
\* `git rev-parse --git-dir`, and the function's own command follows only
\* inside a repository and with options that pass its checks
Runs(isR, valid, command) ==
    <<"rev-parse">> \o (IF isR /\ valid THEN <<command>> ELSE <<>>)

\* what the external tool may answer; IsGitRepository fails fast before it
ListOutcomes(isR) == IF isR THEN {"ok", "failed"} ELSE {"notrepo"}

\* ListWorktrees: the parsed records, the error and the logged call
ListWorktrees(rp, isR, o) ==
    [worktrees |-> IF o = "ok" THEN [i \in 1..Len(rp) |-> [Path |-> rp[i]]] ELSE <<>>,
     err |-> IF o = "ok" THEN "nil" ELSE o,
     call |-> [Call0 EXCEPT !.op = "list", !.result = o,
                            !.tool = Runs(isR, TRUE, "worktree list")]]

\* git refuses to remove the main worktree and paths it does not know
RemoveOutcomes(rp, isR, opts) ==
    IF ~isR THEN {"notrepo"}
    ELSE IF opts.Path = EmptyStr THEN {"failed"}
    ELSE {"failed"} \cup (IF InRepo(Tail(rp), opts.Path) THEN {"ok"} ELSE {})

RemoveWorktree(rp, isR, opts, o) ==
    [err |-> IF o = "ok" THEN "nil" ELSE o,
     repo |-> IF o = "ok"
              THEN RemoveAt(rp, {i \in 1..Len(rp) : rp[i] = opts.Path})
              ELSE rp,
     call |-> [Call0 EXCEPT !.op = "remove", !.path = opts.Path,
                            !.force = opts.Force, !.result = o,
                            !.tool = Runs(isR, opts.Path # EmptyStr, "worktree remove")]]

\* prune drops the stale entries S (never the main worktree); text is the
\* trimmed output of the tool
PruneOutcomes(rp, isR) ==
    IF ~isR THEN { [result |-> "notrepo", stale |-> {}, output |-> ""] }
    ELSE { [result |-> "failed", stale |-> {}, output |-> ""] }
         \cup { [result |-> "ok", stale |-> S, output |-> t] :
                  S \in SUBSET (2..Len(rp)), t \in {"", "text"} }

PruneWorktrees(rp, isR, o) ==
    [err |-> IF o.result = "ok" THEN "nil" ELSE o.result,
     output |-> o.output,
     repo |-> IF o.result = "ok" THEN RemoveAt(rp, o.stale) ELSE rp,
     call |-> [Call0 EXCEPT !.op = "prune", !.result = o.result,
                            !.tool = Runs(isR, TRUE, "worktree prune")]]

AddOutcomes(rp, isR, opts) ==
    IF ~isR THEN {"notrepo"}
    ELSE IF opts.Path = EmptyStr THEN {"failed"}
    ELSE IF ~opts.CreateBranch /\ opts.Branch = EmptyStr THEN {"failed"}
    ELSE {"failed"} \cup (IF InRepo(rp, opts.Path) THEN {} ELSE {"ok"})

AddWorktree(rp, isR, opts, o) ==
    [err |-> IF o = "ok" THEN "nil" ELSE o,
     repo |-> IF o = "ok" THEN Append(rp, opts.Path) ELSE rp,
     call |-> [Call0 EXCEPT !.op = "add", !.path = opts.Path, !.branch = opts.Branch,
                            !.createBranch = opts.CreateBranch, !.result = o,
                            !.tool = Runs(isR,
                                          /\ opts.Path # EmptyStr
                                          /\ opts.CreateBranch \/ opts.Branch # EmptyStr,
                                          "worktree add")]]

\* no error taken for "not a repository"
IsNotGitRepoError_Never(err) == FALSE
IsNotGitRepoError(err) == err = "notrepo"

\* ------------------------------------------------------------- parsers
\* text is a sequence of one-character strings; the strings package
IsSpace(c) == c \in {" ", "\t", "\n", "\r"}
RECURSIVE TrimLeft(_)
TrimLeft(s) == IF s # <<>> /\ IsSpace(Head(s)) THEN TrimLeft(Tail(s)) ELSE s
RECURSIVE TrimRight(_)
TrimRight(s) ==
    IF s # <<>> /\ IsSpace(s[Len(s)]) THEN TrimRight(SubSeq(s, 1, Len(s) - 1)) ELSE s
TrimSpace(s) == TrimRight(TrimLeft(s))
HasSuffix(s, suffix) ==
    /\ Len(s) >= Len(suffix)
    /\ SubSeq(s, Len(s) - Len(suffix) + 1, Len(s)) = suffix
TrimSuffix(s, suffix) ==
    IF HasSuffix(s, suffix) THEN SubSeq(s, 1, Len(s) - Len(suffix)) ELSE s
\* index of the last c in s counted from 0, -1 when there is none
LastIndex(s, c) ==
    LET I == {i \in 1..Len(s) : s[i] = c}
    IN IF I = {} THEN -1 ELSE (CHOOSE i \in I : \A j \in I : j <= i) - 1
RECURSIVE Split(_, _)
Split(s, sep) ==
    LET I == {i \in 1..Len(s) : s[i] = sep}
    IN IF I = {} THEN <<s>>
       ELSE LET i == CHOOSE x \in I : \A y \in I : x <= y
            IN <<SubSeq(s, 1, i - 1)>> \o Split(SubSeq(s, i + 1, Len(s)), sep)

IsLine(line) == TrimSpace(line) # EmptyStr
BareSuffix == <<"(", "b", "a", "r", "e", ")">>
DetachedSuffix ==
    <<"(", "d", "e", "t", "a", "c", "h", "e", "d", " ", "H", "E", "A", "D", ")">>
Worktree0 ==
    [Path |-> EmptyStr, Branch |-> EmptyStr, CommitHash |-> EmptyStr,
     IsBare |-> FALSE, IsDetached |-> FALSE]

\* the splitter cutting at the first run of two spaces
splitWorktreePath_FirstGap(s0) ==
    LET s == TrimSpace(s0)
        M == {i \in 0..(Len(s) - 2) : s[i + 1] = " " /\ s[i + 2] = " "}
    IN IF M = {} THEN <<s>>
       ELSE LET first == CHOOSE i \in M : \A j \in M : i <= j
            IN <<TrimSpace(SubSeq(s, 1, first)),
                 TrimSpace(SubSeq(s, first + 1, Len(s)))>>
\* path and hash are separated by the last run of two or more spaces
splitWorktreePath(s0) ==
    LET s == TrimSpace(s0)
        M == {i \in 0..(Len(s) - 2) : s[i + 1] = " " /\ s[i + 2] = " "}
    IN IF M = {} THEN <<s>>
       ELSE LET lastMultiSpace == CHOOSE i \in M : \A j \in M : j <= i
            IN <<TrimSpace(SubSeq(s, 1, lastMultiSpace)),
                 TrimSpace(SubSeq(s, lastMultiSpace + 1, Len(s)))>>

\* the fields taken from the text before a suffix or a bracket
PathAndHash(wt, remaining) ==
    LET parts == splitWorktreePath(remaining)
    IN [wt EXCEPT !.Path = IF Len(parts) >= 1 THEN parts[1] ELSE @,
                  !.CommitHash = IF Len(parts) >= 2 THEN parts[2] ELSE @]
\* the bracket case of parseWorktreeLine
BranchLine(wt, line) ==
    LET bracketStart == LastIndex(line, "[")
        bracketEnd == LastIndex(line, "]")
    IN IF bracketStart # -1 /\ bracketEnd # -1 /\ bracketEnd > bracketStart
       THEN PathAndHash([wt EXCEPT !.Branch = SubSeq(line, bracketStart + 2, bracketEnd)],
                        TrimSpace(SubSeq(line, 1, bracketStart)))
       ELSE wt

\* a bare line that goes on to the bracket case
parseWorktreeLine_BareFallsThrough(line) ==
    IF HasSuffix(line, BareSuffix)
    THEN BranchLine([Worktree0 EXCEPT !.IsBare = TRUE,
                                      !.Path = TrimSpace(TrimSuffix(line, BareSuffix))],
                    line)
    ELSE IF HasSuffix(line, DetachedSuffix)
    THEN PathAndHash([Worktree0 EXCEPT !.IsDetached = TRUE],
                     TrimSpace(TrimSuffix(line, DetachedSuffix)))
    ELSE BranchLine(Worktree0, line)
parseWorktreeLine(line) ==
    IF HasSuffix(line, BareSuffix)
    THEN [Worktree0 EXCEPT !.IsBare = TRUE,
                           !.Path = TrimSpace(TrimSuffix(line, BareSuffix))]
    ELSE IF HasSuffix(line, DetachedSuffix)
    THEN PathAndHash([Worktree0 EXCEPT !.IsDetached = TRUE],
                     TrimSpace(TrimSuffix(line, DetachedSuffix)))
    ELSE BranchLine(Worktree0, line)

\* a parser that gives up at the first line it does not recognise
ParseWorktreeList_StopAtGarbage(output) ==
    LET lines == Split(output, "\n")
        F[i \in 0..Len(lines)] ==
            IF i = 0 THEN [wts |-> <<>>, stop |-> FALSE]
            ELSE LET line == TrimSpace(lines[i])
                     wt == parseWorktreeLine(line)
                 IN IF F[i - 1].stop THEN F[i - 1]
                    ELSE IF line = EmptyStr THEN F[i - 1]
                    ELSE IF wt.Path # EmptyStr
                    THEN [F[i - 1] EXCEPT !.wts = Append(@, wt)]
                    ELSE [F[i - 1] EXCEPT !.stop = TRUE]
    IN F[Len(lines)].wts
ParseWorktreeList(output) ==
    LET lines == Split(output, "\n")
        F[i \in 0..Len(lines)] ==
            IF i = 0 THEN <<>>
            ELSE LET line == TrimSpace(lines[i])
                     wt == parseWorktreeLine(line)
                 IN IF line = EmptyStr THEN F[i - 1]
                    ELSE IF wt.Path # EmptyStr THEN Append(F[i - 1], wt)
                    ELSE F[i - 1]
    IN F[Len(lines)]

NewWorktreeStatus == [ModifiedCount |-> 0, StagedCount |-> 0, UntrackedCount |-> 0]
\* a status parser that counts a file once, staged before modified
ParseWorktreeStatus_OncePerLine(output) ==
    LET lines == Split(output, "\n")
        F[i \in 0..Len(lines)] ==
            IF i = 0 THEN NewWorktreeStatus
            ELSE LET line == lines[i]
                 IN IF Len(line) < 2 THEN F[i - 1]
                    ELSE IF line[1] = "?" /\ line[2] = "?"
                    THEN [F[i - 1] EXCEPT !.UntrackedCount = @ + 1]
                    ELSE IF line[1] # " " /\ line[1] # "?"
                    THEN [F[i - 1] EXCEPT !.StagedCount = @ + 1]
                    ELSE IF line[2] # " " /\ line[2] # "?"
                    THEN [F[i - 1] EXCEPT !.ModifiedCount = @ + 1]
                    ELSE F[i - 1]
    IN F[Len(lines)]
ParseWorktreeStatus(output) ==
    LET lines == Split(output, "\n")
        F[i \in 0..Len(lines)] ==
            IF i = 0 THEN NewWorktreeStatus
            ELSE LET line == lines[i]
                     indexStatus == line[1]
                     workTreeStatus == line[2]
                 IN IF Len(line) < 2 THEN F[i - 1]
                    ELSE IF indexStatus = "?" /\ workTreeStatus = "?"
                    THEN [F[i - 1] EXCEPT !.UntrackedCount = @ + 1]
                    ELSE [F[i - 1] EXCEPT
                            !.StagedCount =
                                IF indexStatus # " " /\ indexStatus # "?" THEN @ + 1 ELSE @,
                            !.ModifiedCount =
                                IF workTreeStatus # " " /\ workTreeStatus # "?"
                                THEN @ + 1 ELSE @]
    IN F[Len(lines)]

\* the dry run of prune changes nothing in the repository
PruneWorktreesDryRun(rp, isR, o) ==
    [err |-> IF o.result = "ok" THEN "nil" ELSE o.result,
     output |-> o.output,
     repo |-> rp,
     call |-> [Call0 EXCEPT !.op = "prune-dry-run", !.result = o.result,
                            !.tool = Runs(isR, TRUE, "worktree prune --dry-run")]]

\* porcelain status of one worktree
StatusTexts == {EmptyStr, <<" ", "M", " ", "a", "\n">>, <<"?", "?", " ", "c", "\n">>}
StatusOutcomes(isR) ==
    IF ~isR THEN { [result |-> "notrepo", output |-> EmptyStr] }
    ELSE { [result |-> "failed", output |-> EmptyStr] }
         \cup { [result |-> "ok", output |-> t] : t \in StatusTexts }
GetWorktreeStatus(isR, path, o) ==
    [status |-> IF o.result = "ok" THEN ParseWorktreeStatus(o.output)
                ELSE NewWorktreeStatus,
     err |-> IF o.result = "ok" THEN "nil" ELSE o.result,
     call |-> [Call0 EXCEPT !.op = "status", !.path = path, !.result = o.result,
                            !.tool = Runs(isR, TRUE, "status --porcelain")]]

\* the local branches, one per non-blank line of the tool's text
BranchTexts == {EmptyStr, <<"m", "\n">>, <<"m", "\n", "x", "\n">>}
BranchOutcomes(isR) ==
    IF ~isR THEN { [result |-> "notrepo", output |-> EmptyStr] }
    ELSE { [result |-> "failed", output |-> EmptyStr] }
         \cup { [result |-> "ok", output |-> t] : t \in BranchTexts }
ListBranches(isR, o) ==
    [branches |-> IF o.result = "ok"
                  THEN LET ls == SelectSeq(Split(TrimSpace(o.output), "\n"), IsLine)
                       IN [i \in 1..Len(ls) |-> TrimSpace(ls[i])]
                  ELSE <<>>,
     err |-> IF o.result = "ok" THEN "nil" ELSE o.result,
     call |-> [Call0 EXCEPT !.op = "branches", !.result = o.result,
                            !.tool = Runs(isR, TRUE, "branch")]]

\* OpenWorktree of the terminal-launch collaborator: error, opened, or the
\* cd-command fallback
OpenOutcomes == {"error", "success", "fallback"}

\* ------------------------------------------------------------------ App
VARIABLES
    quitting,       \* App.quitting
    tabs,           \* App.tabs
    list,           \* App.list
    details,        \* App.details
    actionMenu,     \* App.actionMenu
    feedback,       \* App.feedback
    createForm,     \* App.createForm
    confirmDialog,  \* App.confirmDialog
    width,          \* App.width
    height,         \* App.height
    worktrees,      \* App.worktrees
    gitError,       \* App.gitError: "nil", "notrepo" or "failed"
    targetPath,     \* App.targetPath
    repo,           \* the repository: paths `git worktree list` prints, in order
    isRepo,         \* whether repoPath is inside a git repository
    output,         \* text of the external tool that was parsed last
    status,         \* WorktreeStatus parsed last
    pending,        \* bag of messages of returned commands, not yet delivered
    calls,          \* adapter calls made while handling the last message
    running,        \* the program's event loop has not seen QuitMsg yet
    printed         \* what main printed for the shell wrapper after Run

vars == <<quitting, tabs, list, details, actionMenu, feedback, createForm,
          confirmDialog, width, height, worktrees, gitError, targetPath,
          repo, isRepo, output, status, pending, calls, running, printed>>

\* the App object as one record
App ==
    [quitting |-> quitting, tabs |-> tabs, list |-> list, details |-> details,
     actionMenu |-> actionMenu, feedback |-> feedback, createForm |-> createForm,
     confirmDialog |-> confirmDialog, width |-> width, height |-> height,
     worktrees |-> worktrees, gitError |-> gitError, targetPath |-> targetPath]

worktreeToListItem(wt) == [ID |-> wt.Path, Title |-> Base(wt.Path)]

\* loadWorktrees storing the worktrees without handing the items to the list
loadWorktrees_KeepList(a, rp, isR, o) ==
    LET r == ListWorktrees(rp, isR, o)
        items == [i \in 1..Len(r.worktrees) |-> worktreeToListItem(r.worktrees[i])]
        newList == a.list
    IN IF r.err # "nil"
       THEN [a |-> [a EXCEPT !.gitError = r.err, !.worktrees = <<>>,
                             !.list = List_SetItems(a.list, <<>>)],
             call |-> r.call]
       ELSE [a |-> [a EXCEPT !.worktrees = r.worktrees, !.gitError = "nil",
                             !.list = newList,
                             !.details = IF Len(items) > 0
                                         THEN Details_SetItem(a.details, List_SelectedItem(newList))
                                         ELSE a.details],
             call |-> r.call]

\* loadWorktrees on App a when the list call answers o
loadWorktrees(a, rp, isR, o) ==
    LET r == ListWorktrees(rp, isR, o)
        items == [i \in 1..Len(r.worktrees) |-> worktreeToListItem(r.worktrees[i])]
        newList == List_SetItems(a.list, items)
    IN IF r.err # "nil"
       THEN [a |-> [a EXCEPT !.gitError = r.err, !.worktrees = <<>>,
                             !.list = List_SetItems(a.list, <<>>)],
             call |-> r.call]
       ELSE [a |-> [a EXCEPT !.worktrees = r.worktrees, !.gitError = "nil",
                             !.list = newList,
                             !.details = IF Len(items) > 0
                                         THEN Details_SetItem(a.details, List_SelectedItem(newList))
                                         ELSE a.details],
             call |-> r.call]

NewAppWithPath(rp, isR, o) ==
    loadWorktrees([quitting |-> FALSE, tabs |-> NewTabs, list |-> NewList(<<>>),
                   details |-> NewDetails, actionMenu |-> NewActionMenu,
                   feedback |-> NewFeedback, createForm |-> NewCreateForm,
                   confirmDialog |-> NewConfirmDialog, width |-> 0, height |-> 0,
                   worktrees |-> <<>>, gitError |-> "nil", targetPath |-> EmptyStr],
                  rp, isR, o)

\* updatePaneSizes without the floor of 0 under the details width
updatePaneSizes_NoDetailsFloor(a) ==
    LET availableHeight == IF a.height - 4 < 0 THEN 0 ELSE a.height - 4
        listWidth0 == (a.width * 40) \div 100
        listWidth == IF listWidth0 < 0 THEN 0 ELSE listWidth0
    IN [a EXCEPT !.list = List_SetOffset(List_SetSize(a.list, listWidth, availableHeight), 0, 3),
                 !.details = Details_SetSize(a.details, a.width - listWidth0 - 1, availableHeight)]
updatePaneSizes(a) ==
    LET availableHeight == IF a.height - 4 < 0 THEN 0 ELSE a.height - 4
        listWidth0 == (a.width * 40) \div 100
        detailsWidth0 == a.width - listWidth0 - 1
        listWidth == IF listWidth0 < 0 THEN 0 ELSE listWidth0
        detailsWidth == IF detailsWidth0 < 0 THEN 0 ELSE detailsWidth0
    IN [a EXCEPT !.list = List_SetOffset(List_SetSize(a.list, listWidth, availableHeight), 0, 3),
                 !.details = Details_SetSize(a.details, detailsWidth, availableHeight)]

\* an Update whose quitting flag says only whether this event asked to quit
Res_QuitOfThisEvent(a, cmd, cs, rp) ==
    [a |-> [a EXCEPT !.quitting = (cmd = Quit)], cmd |-> cmd, calls |-> cs, repo |-> rp]
\* a handler's outcome: the App, the returned command, the adapter calls it
\* made and the repository afterwards
Res(a, cmd, cs, rp) == [a |-> a, cmd |-> cmd, calls |-> cs, repo |-> rp]
WithFeedback(a, fb) == [a EXCEPT !.feedback = fb.s]

\* handleActionExecuted asking about the entry selected now, not the one
\* the message names
handleActionExecuted_CurrentSelection(a, m, rp, open) ==
    CASE m.action = "" -> Res(a, NoCmd, <<>>, rp)
      [] m.action = "open" ->
            LET fb == CASE open = "error" ->
                            Feedback_ShowError(a.feedback, <<"Failed to open worktree: ">>)
                        [] open = "success" ->
                            Feedback_ShowSuccess(a.feedback, <<"Opened">>)
                        [] OTHER -> Feedback_ShowInfo(a.feedback, <<"cd ">> \o m.item.ID)
            IN Res(WithFeedback(a, fb), fb.cmd, <<>>, rp)
      [] m.action = "cd" ->
            LET fb == Feedback_ShowInfo(a.feedback, <<"Copy: cd ">> \o m.item.ID)
            IN Res(WithFeedback(a, fb), fb.cmd, <<>>, rp)
      [] m.action = "delete" ->
            Res([a EXCEPT !.confirmDialog =
                    ConfirmDialog_ShowDanger(
                        ConfirmDialog_SetForceOption(
                            ConfirmDialog_SetConfirmLabel(a.confirmDialog, "Delete"), TRUE),
                        "Delete Worktree?", ItemData(List_SelectedItem(a.list)))],
                NoCmd, <<>>, rp)
      [] OTHER ->
            LET fb == Feedback_ShowError(a.feedback, <<"Unknown action: ", m.action>>)
            IN Res(WithFeedback(a, fb), fb.cmd, <<>>, rp)

handleActionExecuted(a, m, rp, open) ==
    CASE m.action = "" -> Res(a, NoCmd, <<>>, rp)
      [] m.action = "open" ->
            LET fb == CASE open = "error" ->
                            Feedback_ShowError(a.feedback, <<"Failed to open worktree: ">>)
                        [] open = "success" ->
                            Feedback_ShowSuccess(a.feedback, <<"Opened">>)
                        [] OTHER -> Feedback_ShowInfo(a.feedback, <<"cd ">> \o m.item.ID)
            IN Res(WithFeedback(a, fb), fb.cmd, <<>>, rp)
      [] m.action = "cd" ->
            LET fb == Feedback_ShowInfo(a.feedback, <<"Copy: cd ">> \o m.item.ID)
            IN Res(WithFeedback(a, fb), fb.cmd, <<>>, rp)
      [] m.action = "delete" ->
            Res([a EXCEPT !.confirmDialog =
                    ConfirmDialog_ShowDanger(
                        ConfirmDialog_SetForceOption(
                            ConfirmDialog_SetConfirmLabel(a.confirmDialog, "Delete"), TRUE),
                        "Delete Worktree?", ItemData(m.item))],
                NoCmd, <<>>, rp)
      [] OTHER ->
            LET fb == Feedback_ShowError(a.feedback, <<"Unknown action: ", m.action>>)
            IN Res(WithFeedback(a, fb), fb.cmd, <<>>, rp)

\* handleCreateFormSubmitted reloading the list before it looks at the error
handleCreateFormSubmitted_ReloadFirst(a, m, rp, isR, o) ==
    LET opts == [Path |-> m.path, Branch |-> m.branch, CreateBranch |-> m.createBranch]
        r == AddWorktree(rp, isR, opts, o)
        ld == loadWorktrees(a, r.repo, isR, IF isR THEN "ok" ELSE "notrepo")
    IN IF r.err # "nil"
       THEN LET fb == Feedback_ShowError(ld.a.feedback, <<"Failed to create worktree: ", r.err>>)
            IN Res(WithFeedback(ld.a, fb), fb.cmd, <<r.call, ld.call>>, r.repo)
       ELSE Res([a EXCEPT !.targetPath = m.path, !.quitting = TRUE],
                Quit, <<r.call>>, r.repo)

\* the variant of handleCreateFormSubmitted that hands off to the shell
handleCreateFormSubmitted(a, m, rp, isR, o) ==
    LET opts == [Path |-> m.path, Branch |-> m.branch, CreateBranch |-> m.createBranch]
        r == AddWorktree(rp, isR, opts, o)
    IN IF r.err # "nil"
       THEN LET fb == Feedback_ShowError(a.feedback, <<"Failed to create worktree: ", r.err>>)
            IN Res(WithFeedback(a, fb), fb.cmd, <<r.call>>, r.repo)
       ELSE Res([a EXCEPT !.targetPath = m.path, !.quitting = TRUE],
                Quit, <<r.call>>, r.repo)

\* handleConfirmDialogResult without the early return for a cancelled dialog
handleConfirmDialogResult_Unconditional(a, m, rp, isR, ro, po, lo) ==
    IF m.data.kind = "item"
    THEN LET item == m.data.item
             r == RemoveWorktree(rp, isR, [Path |-> item.ID, Force |-> m.force], ro)
         IN IF r.err # "nil"
            THEN LET fb == Feedback_ShowError(a.feedback, <<"Failed to remove worktree: ", r.err>>)
                 IN Res(WithFeedback(a, fb), fb.cmd, <<r.call>>, r.repo)
            ELSE LET ld == loadWorktrees(a, r.repo, isR, lo)
                     fb == Feedback_ShowSuccess(ld.a.feedback, <<"Removed worktree: ">> \o item.Title)
                 IN Res(WithFeedback(ld.a, fb), fb.cmd, <<r.call, ld.call>>, r.repo)
    ELSE IF m.data.kind = "prune"
    THEN LET r == PruneWorktrees(rp, isR, po)
         IN IF r.err # "nil"
            THEN LET fb == Feedback_ShowError(a.feedback, <<"Failed to prune worktrees: ", r.err>>)
                 IN Res(WithFeedback(a, fb), fb.cmd, <<r.call>>, r.repo)
            ELSE LET ld == loadWorktrees(a, r.repo, isR, lo)
                     message == IF r.output # "" THEN <<"Pruned: ", r.output>>
                                ELSE <<"Pruned stale worktrees">>
                     fb == Feedback_ShowSuccess(ld.a.feedback, message)
                 IN Res(WithFeedback(ld.a, fb), fb.cmd, <<r.call, ld.call>>, r.repo)
    ELSE Res(a, NoCmd, <<>>, rp)

handleConfirmDialogResult(a, m, rp, isR, ro, po, lo) ==
    IF ~m.confirmed THEN Res(a, NoCmd, <<>>, rp)
    ELSE IF m.data.kind = "item"
    THEN LET item == m.data.item
             r == RemoveWorktree(rp, isR, [Path |-> item.ID, Force |-> m.force], ro)
         IN IF r.err # "nil"
            THEN LET fb == Feedback_ShowError(a.feedback, <<"Failed to remove worktree: ", r.err>>)
                 IN Res(WithFeedback(a, fb), fb.cmd, <<r.call>>, r.repo)
            ELSE LET ld == loadWorktrees(a, r.repo, isR, lo)
                     fb == Feedback_ShowSuccess(ld.a.feedback, <<"Removed worktree: ">> \o item.Title)
                 IN Res(WithFeedback(ld.a, fb), fb.cmd, <<r.call, ld.call>>, r.repo)
    ELSE IF m.data.kind = "prune"
    THEN LET r == PruneWorktrees(rp, isR, po)
         IN IF r.err # "nil"
            THEN LET fb == Feedback_ShowError(a.feedback, <<"Failed to prune worktrees: ", r.err>>)
                 IN Res(WithFeedback(a, fb), fb.cmd, <<r.call>>, r.repo)
            ELSE LET ld == loadWorktrees(a, r.repo, isR, lo)
                     message == IF r.output # "" THEN <<"Pruned: ", r.output>>
                                ELSE <<"Pruned stale worktrees">>
                     fb == Feedback_ShowSuccess(ld.a.feedback, message)
                 IN Res(WithFeedback(ld.a, fb), fb.cmd, <<r.call, ld.call>>, r.repo)
    ELSE Res(a, NoCmd, <<>>, rp)

\* every tab taken for one that shows the list
OnListTab_Any(a) == TRUE
\* the tabs that show a worktree-like collection
OnListTab(a) == a.tabs.active = TabWorktrees \/ a.tabs.active = TabBranches
SetQuitting(a) == [a EXCEPT !.quitting = TRUE]
ListNavigate(a, k) ==
    IF OnListTab(a)
    THEN LET l == List_UpdateKey(a.list, k)
         IN [a EXCEPT !.list = l, !.details = Details_SetItem(a.details, List_SelectedItem(l))]
    ELSE a

\* the final switch of Update for a key, reached when no modal took it
UpdateKeyBase(a, k) ==
    CASE k = "ctrl+c" -> [a |-> SetQuitting(a), cmd |-> Quit]
      [] k \in {"tab", "shift+tab"} ->
            [a |-> [a EXCEPT !.tabs = Tabs_UpdateKey(a.tabs, k)], cmd |-> NoCmd]
      [] k = "enter" ->
            [a |-> IF OnListTab(a) /\ List_SelectedItem(a.list) # NilItem
                   THEN [a EXCEPT !.actionMenu = ActionMenu_Show(a.actionMenu, List_SelectedItem(a.list))]
                   ELSE a,
             cmd |-> NoCmd]
      [] k = "esc" ->
            [a |-> IF a.actionMenu.visible
                   THEN [a EXCEPT !.actionMenu = ActionMenu_Hide(a.actionMenu)]
                   ELSE a,
             cmd |-> NoCmd]
      [] k \in {"up", "down", "pgup", "pgdown"} -> [a |-> ListNavigate(a, k), cmd |-> NoCmd]
      [] k = "q" -> [a |-> SetQuitting(a), cmd |-> Quit]
      [] k = "n" ->
            [a |-> IF a.tabs.active = TabWorktrees /\ ~IsNotGitRepoError(a.gitError)
                   THEN [a EXCEPT !.createForm = CreateForm_Show(a.createForm)]
                   ELSE a,
             cmd |-> NoCmd]
      [] k = "p" ->
            [a |-> IF a.tabs.active = TabWorktrees /\ ~IsNotGitRepoError(a.gitError)
                   THEN [a EXCEPT !.confirmDialog =
                            ConfirmDialog_ShowWithData(
                                ConfirmDialog_SetForceOption(
                                    ConfirmDialog_SetConfirmLabel(a.confirmDialog, "Prune"), FALSE),
                                "Prune Stale Worktrees?", PruneData)]
                   ELSE a,
             cmd |-> NoCmd]
      [] k \in {"j", "k"} -> [a |-> ListNavigate(a, k), cmd |-> NoCmd]
      [] OTHER -> [a |-> a, cmd |-> NoCmd]

\* UpdateKey with the Confirmation Dialog's block passing every key on to
\* the dialog, Ctrl+C included
UpdateKey_NoInterruptCheck(a, k) ==
    IF a.confirmDialog.visible
    THEN LET u == ConfirmDialog_Update(a.confirmDialog, k)
         IN [a |-> [a EXCEPT !.confirmDialog = u.s], cmd |-> u.cmd]
    ELSE IF a.createForm.visible
    THEN IF k = "ctrl+c" THEN [a |-> SetQuitting(a), cmd |-> Quit]
         ELSE LET u == CreateForm_Update(a.createForm, k)
              IN [a |-> [a EXCEPT !.createForm = u.s], cmd |-> u.cmd]
    ELSE IF a.actionMenu.visible
    THEN IF k = "ctrl+c" THEN [a |-> SetQuitting(a), cmd |-> Quit]
         ELSE LET u == ActionMenu_Update(a.actionMenu, k)
              IN [a |-> [a EXCEPT !.actionMenu = u.s], cmd |-> u.cmd]
    ELSE UpdateKeyBase(a, k)

\* UpdateKey with 'q' taken as a quit key ahead of the modal checks
UpdateKey_QuitAnywhere(a, k) ==
    IF k = "q" THEN [a |-> SetQuitting(a), cmd |-> Quit]
    ELSE IF a.confirmDialog.visible \/ a.createForm.visible \/ a.actionMenu.visible
    THEN [a |-> a, cmd |-> NoCmd]
    ELSE UpdateKeyBase(a, k)

\* UpdateKey with the Creation Form's block ahead of the Confirmation
\* Dialog's
UpdateKey_FormFirst(a, k) ==
    IF a.createForm.visible
    THEN IF k = "ctrl+c" THEN [a |-> SetQuitting(a), cmd |-> Quit]
         ELSE LET u == CreateForm_Update(a.createForm, k)
              IN [a |-> [a EXCEPT !.createForm = u.s], cmd |-> u.cmd]
    ELSE IF a.confirmDialog.visible
    THEN IF k = "ctrl+c" THEN [a |-> SetQuitting(a), cmd |-> Quit]
         ELSE LET u == ConfirmDialog_Update(a.confirmDialog, k)
              IN [a |-> [a EXCEPT !.confirmDialog = u.s], cmd |-> u.cmd]
    ELSE IF a.actionMenu.visible
    THEN IF k = "ctrl+c" THEN [a |-> SetQuitting(a), cmd |-> Quit]
         ELSE LET u == ActionMenu_Update(a.actionMenu, k)
              IN [a |-> [a EXCEPT !.actionMenu = u.s], cmd |-> u.cmd]
    ELSE UpdateKeyBase(a, k)

\* Update for a tea.KeyMsg: the three modal checks in order, then the switch
UpdateKey(a, k) ==
    IF a.confirmDialog.visible
    THEN IF k = "ctrl+c" THEN [a |-> SetQuitting(a), cmd |-> Quit]
         ELSE LET u == ConfirmDialog_Update(a.confirmDialog, k)
              IN [a |-> [a EXCEPT !.confirmDialog = u.s], cmd |-> u.cmd]
    ELSE IF a.createForm.visible
    THEN IF k = "ctrl+c" THEN [a |-> SetQuitting(a), cmd |-> Quit]
         ELSE LET u == CreateForm_Update(a.createForm, k)
              IN [a |-> [a EXCEPT !.createForm = u.s], cmd |-> u.cmd]
    ELSE IF a.actionMenu.visible
    THEN IF k = "ctrl+c" THEN [a |-> SetQuitting(a), cmd |-> Quit]
         ELSE LET u == ActionMenu_Update(a.actionMenu, k)
              IN [a |-> [a EXCEPT !.actionMenu = u.s], cmd |-> u.cmd]
    ELSE UpdateKeyBase(a, k)

\* Update for a tea.MouseMsg: no modal check applies to it
UpdateMouse(a, button, x, y) ==
    IF y = 0
    THEN [a EXCEPT !.tabs = Tabs_UpdateMouse(a.tabs, button, x, y)]
    ELSE IF OnListTab(a)
    THEN IF List_IsInBounds(a.list, x, y) \/ button = "wheeldown" \/ button = "wheelup"
         THEN LET l == List_UpdateMouse(a.list, button, x, y)
              IN [a EXCEPT !.list = l,
                           !.details = Details_SetItem(a.details, List_SelectedItem(l))]
         ELSE a
    ELSE a

\* Update for a tea.WindowSizeMsg
UpdateWindowSize(a, w, h) ==
    updatePaneSizes([a EXCEPT !.width = w, !.height = h,
                              !.tabs = Tabs_SetWidth(a.tabs, w)])

\* ---------------------------------------------------------- the program
CmdBag(cmd) == IF cmd = NoCmd THEN EmptyBag ELSE SetToBag({cmd[1]})
PendingOf(type) == {m \in BagToSet(pending) : m.type = type}

\* Update returned App r.a and command r.cmd; rest is what stays pending
\* the outcome r of a handler becomes the state, with at most bound messages
\* in flight
CommitWithin(r, rest, bound) ==
    /\ quitting' = r.a.quitting
    /\ tabs' = r.a.tabs
    /\ list' = r.a.list
    /\ details' = r.a.details
    /\ actionMenu' = r.a.actionMenu
    /\ feedback' = r.a.feedback
    /\ createForm' = r.a.createForm
    /\ confirmDialog' = r.a.confirmDialog
    /\ width' = r.a.width
    /\ height' = r.a.height
    /\ worktrees' = r.a.worktrees
    /\ gitError' = r.a.gitError
    /\ targetPath' = r.a.targetPath
    /\ pending' = rest (+) CmdBag(r.cmd)
    /\ BagCardinality(rest (+) CmdBag(r.cmd)) <= bound
    /\ calls' = r.calls
    /\ repo' = r.repo
    /\ UNCHANGED <<isRepo, output, status, running, printed>>
Commit(r, rest) == CommitWithin(r, rest, MaxPending)

Init ==
    /\ isRepo \in BOOLEAN
    /\ repo = InitialRepo
    /\ \E o \in ListOutcomes(isRepo) :
          LET ld == NewAppWithPath(repo, isRepo, o)
          IN /\ quitting = ld.a.quitting
             /\ tabs = ld.a.tabs
             /\ list = ld.a.list
             /\ details = ld.a.details
             /\ actionMenu = ld.a.actionMenu
             /\ feedback = ld.a.feedback
             /\ createForm = ld.a.createForm
             /\ confirmDialog = ld.a.confirmDialog
             /\ width = ld.a.width
             /\ height = ld.a.height
             /\ worktrees = ld.a.worktrees
             /\ gitError = ld.a.gitError
             /\ targetPath = ld.a.targetPath
             /\ calls = <<ld.call>>
    /\ pending = EmptyBag
    /\ running = TRUE
    /\ printed = EmptyStr
    /\ output = EmptyStr
    /\ status = NewWorktreeStatus

\* the Creation Form is the surface Update hands a key to
FormTakesKeys(a) == a.createForm.visible /\ ~a.confirmDialog.visible

\* a key press reaches Update
KeyMsg(k) ==
    /\ running
    /\ IF FormTakesKeys(App) /\ k = "backspace" /\ deleteCharPanics(createForm)
       THEN /\ running' = FALSE
            /\ printed' = <<"panic">>
            /\ pending' = EmptyBag
            /\ calls' = <<>>
            /\ UNCHANGED <<quitting, tabs, list, details, actionMenu, feedback,
                           createForm, confirmDialog, width, height, worktrees,
                           gitError, targetPath, repo, isRepo, output, status>>
       ELSE LET u == UpdateKey(App, k)
            IN /\ Len(u.a.createForm.branch) <= MaxLen
               /\ Len(u.a.createForm.path) <= MaxLen
               /\ Commit(Res(u.a, u.cmd, <<>>, repo), pending)

\* a pointer event reaches Update
MouseMsg(button, x, y) ==
    /\ running
    /\ Commit(Res(UpdateMouse(App, button, x, y), NoCmd, <<>>, repo), pending)

\* a resize notification reaches Update
WindowSizeMsg(w, h) ==
    /\ running
    /\ Commit(Res(UpdateWindowSize(App, w, h), NoCmd, <<>>, repo), pending)

\* the message of an earlier command reaches Update
DeliverActionExecuted ==
    /\ running
    /\ \E m \in PendingOf("ActionExecutedMsg") : \E open \in OpenOutcomes :
          Commit(handleActionExecuted(App, m, repo, open), pending (-) SetToBag({m}))

DeliverClearFeedback ==
    /\ running
    /\ \E m \in PendingOf("ClearFeedbackMsg") :
          Commit(Res([App EXCEPT !.feedback = Feedback_Update(feedback, m)], NoCmd, <<>>, repo),
                 pending (-) SetToBag({m}))

DeliverCreateFormSubmitted ==
    /\ running
    /\ \E m \in PendingOf("CreateFormSubmittedMsg") :
          \E o \in AddOutcomes(repo, isRepo,
                               [Path |-> m.path, Branch |-> m.branch,
                                CreateBranch |-> m.createBranch]) :
             Commit(handleCreateFormSubmitted(App, m, repo, isRepo, o),
                    pending (-) SetToBag({m}))

DeliverCreateFormCancelled ==
    /\ running
    /\ \E m \in PendingOf("CreateFormCancelledMsg") :
          Commit(Res(App, NoCmd, <<>>, repo), pending (-) SetToBag({m}))

DeliverConfirmDialogResult ==
    /\ running
    /\ \E m \in PendingOf("ConfirmDialogResultMsg") :
          \E ro \in RemoveOutcomes(repo, isRepo, [Path |-> m.data.item.ID, Force |-> m.force]) :
          \E po \in PruneOutcomes(repo, isRepo) :
          \E lo \in ListOutcomes(isRepo) :
             Commit(handleConfirmDialogResult(App, m, repo, isRepo, ro, po, lo),
                    pending (-) SetToBag({m}))

\* QuitMsg ends the event loop; main prints the hand-off path, if any
ProgramQuit ==
    /\ running
    /\ PendingOf("QuitMsg") # {}
    /\ running' = FALSE
    /\ printed' = targetPath
    /\ pending' = EmptyBag
    /\ calls' = <<>>
    /\ UNCHANGED <<quitting, tabs, list, details, actionMenu, feedback, createForm,
                   confirmDialog, width, height, worktrees, gitError, targetPath,
                   repo, isRepo, output, status>>

\* ------------------------------------------------------ the environment
\* The engine is driven by three kinds of user.  All of them run the same
\* Update; they differ in the input they produce.

\* does not edit the Creation Form: submits it as it is, or leaves it
NoFormEditing(k) == FormTakesKeys(App) => k \in {"enter", "esc", "ctrl+c"}
\* types only FormRunes into the text fields
Typing(k) ==
    FormTakesKeys(App) =>
        /\ k \in Runes => k \in FormRunes
        /\ k = "space" => createForm.focused = FieldCreateNewBranch
\* no modal is open
AtBase == ~confirmDialog.visible /\ ~createForm.visible /\ ~actionMenu.visible
\* stays on the tab the session starts on
StaysOnTab(k) == AtBase => k \notin {"tab", "shift+tab"}
\* sends input only when every command result has been delivered: only
\* feedback timers may still be running
Waits == \A m \in BagToSet(pending) : m.type = "ClearFeedbackMsg"

\* the keys of a user who does not edit the form: without the two editing
\* keys, which nothing but the form reacts to, and without the keys that
\* repeat "up" and "down" (with no height set a page is one row)
RaceKeys == Keys \ {"backspace", "space", "j", "k", "pgup", "pgdown"}

\* input that races the results of earlier commands
Key == \E k \in RaceKeys : NoFormEditing(k) /\ KeyMsg(k)

\* input of a user who waits for results, and fills in the Creation Form
SyncKey == \E k \in Keys : Waits /\ Typing(k) /\ StaysOnTab(k) /\ KeyMsg(k)

\* input of a user who waits for results and also uses the pointer
PointerKey == \E k \in Keys : Waits /\ NoFormEditing(k) /\ KeyMsg(k)
Mouse == \E b \in MouseButtons, x \in MouseXs, y \in MouseYs : Waits /\ MouseMsg(b, x, y)
Resize == \E sz \in Sizes : Waits /\ WindowSizeMsg(sz[1], sz[2])

Next ==
    \/ Key
    \/ DeliverActionExecuted
    \/ DeliverClearFeedback
    \/ DeliverCreateFormCancelled
    \/ DeliverConfirmDialogResult
    \/ ProgramQuit

Spec == Init /\ [][Next]_vars

NextSync ==
    \/ SyncKey
    \/ DeliverActionExecuted
    \/ DeliverClearFeedback
    \/ DeliverCreateFormSubmitted
    \/ DeliverCreateFormCancelled
    \/ DeliverConfirmDialogResult
    \/ ProgramQuit

SpecSync == Init /\ [][NextSync]_vars

NextPointer ==
    \/ PointerKey
    \/ Mouse
    \/ Resize
    \/ DeliverActionExecuted
    \/ DeliverClearFeedback
    \/ DeliverCreateFormCancelled
    \/ DeliverConfirmDialogResult
    \/ ProgramQuit

SpecPointer == Init /\ [][NextPointer]_vars

\* A user who types ahead: a quit key is read while the result of an
\* earlier command is still in flight, and Update handles that result
\* before the QuitMsg ends the event loop.  The QuitMsg is in flight on top
\* of the MaxPending results.
QuitOvertakes ==
    \E k \in {"q", "ctrl+c"} :
        /\ running
        /\ pending # EmptyBag
        /\ PendingOf("QuitMsg") = {}
        /\ LET u == UpdateKey(App, k)
           IN /\ u.cmd = Quit
              /\ CommitWithin(Res(u.a, u.cmd, <<>>, repo), pending, MaxPending + 1)
ResultBeforeQuit ==
    /\ running
    /\ PendingOf("QuitMsg") # {}
    /\ \E m \in PendingOf("ConfirmDialogResultMsg") :
          \E ro \in RemoveOutcomes(repo, isRepo, [Path |-> m.data.item.ID, Force |-> m.force]) :
          \E po \in PruneOutcomes(repo, isRepo) :
          \E lo \in ListOutcomes(isRepo) :
             CommitWithin(handleConfirmDialogResult(App, m, repo, isRepo, ro, po, lo),
                          pending (-) SetToBag({m}), MaxPending + 1)

NextQuit ==
    \/ Key
    \/ QuitOvertakes
    \/ ResultBeforeQuit
    \/ DeliverActionExecuted
    \/ DeliverClearFeedback
    \/ DeliverCreateFormCancelled
    \/ DeliverConfirmDialogResult
    \/ ProgramQuit

SpecQuit == Init /\ [][NextQuit]_vars

\* The List Surface on its own: a caller applies its operations in any order
\* and with any argument to the list of the session, which touches nothing
\* else of the engine.
MaxItems == 3
ItemPaths == << <<"m">>, <<"w">>, <<"x">>, <<"y">>, <<"z">> >>
\* the first n entries, as list items
ListItems(n) == [i \in 1..n |-> worktreeToListItem([Path |-> ItemPaths[i]])]
ListOnly ==
    UNCHANGED <<quitting, tabs, details, actionMenu, feedback, createForm,
                confirmDialog, width, height, worktrees, gitError, targetPath,
                repo, isRepo, output, status, pending, calls, running, printed>>
ListSetItems ==
    \E n \in 0..Min(MaxItems, Len(ItemPaths)) :
        list' = List_SetItems(list, ListItems(n)) /\ ListOnly
ListSetSelected ==
    \E i \in -1..(MaxItems + 1) : list' = List_SetSelected(list, i) /\ ListOnly
ListKey ==
    \E k \in {"up", "down", "pgup", "pgdown", "j", "k"} :
        list' = List_UpdateKey(list, k) /\ ListOnly
ListMouse ==
    \E b \in MouseButtons, x \in {0, 1}, y \in 0..(MaxItems + 1) :
        list' = List_UpdateMouse(list, b, x, y) /\ ListOnly
ListSetSize ==
    \E w \in {0, 2}, h \in 0..MaxItems : list' = List_SetSize(list, w, h) /\ ListOnly
ListSetOffset ==
    \E x \in {0, 1}, y \in {0, 1} : list' = List_SetOffset(list, x, y) /\ ListOnly

NextList ==
    \/ ListSetItems
    \/ ListSetSelected
    \/ ListKey
    \/ ListMouse
    \/ ListSetSize
    \/ ListSetOffset

SpecList == Init /\ [][NextList]_vars

\* The layout on its own: the host reports one size after another, any width
\* and height up to MaxSide, and nothing else happens.
MaxSide == 20
ResizeAny == \E w \in 0..MaxSide, h \in 0..MaxSide : WindowSizeMsg(w, h)

NextLayout == ResizeAny

SpecLayout == Init /\ [][NextLayout]_vars

\* The Creation Form on its own: a caller shows the form when it is hidden
\* and hands it one key after another while it is visible.  Nothing else of
\* the engine moves; pending holds the command the last call returned.
MaxField == 2
FormAlphabet == {"q", "n"}
FormKeys ==
    {"enter", "esc", "tab", "shift+tab", "backspace", "left", "right", "space"}
        \cup FormAlphabet
FormOnly ==
    UNCHANGED <<quitting, tabs, list, details, actionMenu, feedback,
                confirmDialog, width, height, worktrees, gitError, targetPath,
                repo, isRepo, output, status, calls, running, printed>>
FormShow ==
    /\ ~createForm.visible
    /\ createForm' = CreateForm_Show(createForm)
    /\ pending' = EmptyBag
    /\ FormOnly
FormUpdate ==
    \E k \in FormKeys :
        /\ createForm.visible
        /\ ~(k = "backspace" /\ deleteCharPanics(createForm))
        /\ LET u == CreateForm_Update(createForm, k)
           IN /\ Len(u.s.branch) <= MaxField
              /\ Len(u.s.path) <= MaxField
              /\ createForm' = u.s
              /\ pending' = CmdBag(u.cmd)
        /\ FormOnly

NextForm ==
    \/ FormShow
    \/ FormUpdate

SpecForm == Init /\ [][NextForm]_vars

\* The Feedback Surface on its own: a caller shows one message after another
\* and hands every returned command to the host, whose timers fire in any
\* order; up to MaxTimers of them run at a time.
MaxTimers == 2
FeedbackTexts ==
    {<<"Opened">>, <<"Copy: cd">>, <<"Failed to open">>, <<"Pruned">>, <<"Created">>}
FeedbackOnly ==
    UNCHANGED <<quitting, tabs, list, details, actionMenu, createForm,
                confirmDialog, width, height, worktrees, gitError, targetPath,
                repo, isRepo, output, status, calls, running, printed>>
FeedbackShow ==
    \E text \in FeedbackTexts :
        \E u \in {Feedback_ShowSuccess(feedback, text),
                  Feedback_ShowError(feedback, text),
                  Feedback_ShowInfo(feedback, text)} :
            /\ BagCardinality(pending) < MaxTimers
            /\ feedback' = u.s
            /\ pending' = pending (+) CmdBag(u.cmd)
            /\ FeedbackOnly
FeedbackTick ==
    \E m \in PendingOf("ClearFeedbackMsg") :
        /\ feedback' = Feedback_Update(feedback, m)
        /\ pending' = pending (-) SetToBag({m})
        /\ FeedbackOnly

NextFeedback ==
    \/ FeedbackShow
    \/ FeedbackTick

SpecFeedback == Init /\ [][NextFeedback]_vars

\* tea.Tick fires its callback once the duration has passed and the host
\* hands the message to Update: a running timer is eventually delivered.
SpecFeedbackLive == SpecFeedback /\ WF_vars(FeedbackTick)

\* The list parser on its own: the external tool prints one more line and
\* the session reads the whole text again, as ListWorktrees and
\* loadWorktrees do on a refresh that succeeds.
MaxLines == 3
SamplePaths == { <<"/", "a">>, <<"/", "b", " ", " ", "c">> }
SampleHash == <<"1", "f">>
SampleBranch == <<"m">>
\* the records of well-formed lines: bare, detached, branch-annotated
WorktreeRecords ==
    { [Worktree0 EXCEPT !.Path = p, !.IsBare = TRUE] : p \in SamplePaths }
    \cup { [Worktree0 EXCEPT !.Path = p, !.CommitHash = SampleHash,
                             !.IsDetached = TRUE] : p \in SamplePaths }
    \cup { [Worktree0 EXCEPT !.Path = p, !.CommitHash = SampleHash,
                             !.Branch = SampleBranch] : p \in SamplePaths }
\* a record as the tool prints it, in one of the three shapes
FormatWorktree(wt) ==
    wt.Path \o <<" ", " ">> \o
    (IF wt.IsBare THEN BareSuffix
     ELSE IF wt.IsDetached THEN wt.CommitHash \o <<" ">> \o DetachedSuffix
     ELSE wt.CommitHash \o <<" ", "[">> \o wt.Branch \o <<"]">>)
\* blank lines and lines in none of the three shapes
GarbageLines ==
    { EmptyStr, <<" ", " ">>, <<"j", "u", "n", "k">>, <<"]", " ", "[">> }
\* a branch-annotated line with (bare) after it
MixedLine ==
    <<"/", "c", " ", " ">> \o SampleHash \o <<" ", "[">> \o SampleBranch
        \o <<"]", " ">> \o BareSuffix
ListLines ==
    {FormatWorktree(wt) : wt \in WorktreeRecords} \cup GarbageLines \cup {MixedLine}
LineCount(text) == Len(Split(text, "\n")) - 1
ParseListOnly ==
    UNCHANGED <<quitting, tabs, actionMenu, feedback, createForm, confirmDialog,
                width, height, targetPath, repo, isRepo, status, pending, calls,
                running, printed>>
ReadWorktreeList ==
    \E line \in ListLines :
        LET text == output \o line \o <<"\n">>
            wts == ParseWorktreeList(text)
            items == [i \in 1..Len(wts) |-> worktreeToListItem(wts[i])]
            newList == List_SetItems(list, items)
        IN /\ isRepo
           /\ LineCount(output) < MaxLines
           /\ output' = text
           /\ worktrees' = wts
           /\ gitError' = "nil"
           /\ list' = newList
           /\ details' = IF Len(items) > 0
                         THEN Details_SetItem(details, List_SelectedItem(newList))
                         ELSE details
           /\ ParseListOnly
NextParseList == ReadWorktreeList
SpecParseList == Init /\ [][NextParseList]_vars

\* The status parser on its own: the tool prints one more line of porcelain
\* status and GetWorktreeStatus parses the whole text.
MaxStatusLines == 5
TxtSuffix == <<".", "t", "x", "t">>
StatusLines ==
    { <<" ", "M", " ", "a">> \o TxtSuffix, <<"M", " ", " ", "b">> \o TxtSuffix,
      <<"?", "?", " ", "c">> \o TxtSuffix, <<"M", "M", " ", "d">> \o TxtSuffix,
      <<"A", " ", " ", "e">> \o TxtSuffix, <<"?">> }
ParseStatusOnly ==
    UNCHANGED <<quitting, tabs, list, details, actionMenu, feedback, createForm,
                confirmDialog, width, height, worktrees, gitError, targetPath,
                repo, isRepo, pending, calls, running, printed>>
ReadWorktreeStatus ==
    \E line \in StatusLines :
        LET text == output \o line \o <<"\n">>
        IN /\ isRepo
           /\ LineCount(output) < MaxStatusLines
           /\ output' = text
           /\ status' = ParseWorktreeStatus(text)
           /\ ParseStatusOnly
NextParseStatus == ReadWorktreeStatus
SpecParseStatus == Init /\ [][NextParseStatus]_vars

\* The adapter on its own: a caller makes one call after another, inside or
\* outside a repository, and the last call is logged in calls.
AdapterPaths == {EmptyStr, <<"w">>, <<"a">>}
AdapterOnly ==
    UNCHANGED <<quitting, tabs, list, details, actionMenu, feedback, createForm,
                confirmDialog, width, height, worktrees, gitError, targetPath,
                isRepo, output, pending, running, printed>>
AdapterList ==
    \E o \in ListOutcomes(isRepo) :
        /\ calls' = <<ListWorktrees(repo, isRepo, o).call>>
        /\ UNCHANGED <<repo, status>>
        /\ AdapterOnly
AdapterAdd ==
    \E p \in AdapterPaths, b \in {EmptyStr, <<"m">>}, cb \in BOOLEAN :
        LET opts == [Path |-> p, Branch |-> b, CreateBranch |-> cb]
        IN \E o \in AddOutcomes(repo, isRepo, opts) :
              LET r == AddWorktree(repo, isRepo, opts, o)
              IN /\ Len(r.repo) <= MaxItems
                 /\ repo' = r.repo
                 /\ calls' = <<r.call>>
                 /\ UNCHANGED status
                 /\ AdapterOnly
AdapterRemove ==
    \E p \in AdapterPaths, f \in BOOLEAN :
        LET opts == [Path |-> p, Force |-> f]
        IN \E o \in RemoveOutcomes(repo, isRepo, opts) :
              LET r == RemoveWorktree(repo, isRepo, opts, o)
              IN /\ repo' = r.repo
                 /\ calls' = <<r.call>>
                 /\ UNCHANGED status
                 /\ AdapterOnly
AdapterPrune ==
    \E o \in PruneOutcomes(repo, isRepo) :
        LET r == PruneWorktrees(repo, isRepo, o)
        IN /\ repo' = r.repo
           /\ calls' = <<r.call>>
           /\ UNCHANGED status
           /\ AdapterOnly
AdapterPruneDryRun ==
    \E o \in PruneOutcomes(repo, isRepo) :
        LET r == PruneWorktreesDryRun(repo, isRepo, o)
        IN /\ repo' = r.repo
           /\ calls' = <<r.call>>
           /\ UNCHANGED status
           /\ AdapterOnly
AdapterStatus ==
    \E p \in AdapterPaths \ {EmptyStr} : \E o \in StatusOutcomes(isRepo) :
        LET r == GetWorktreeStatus(isRepo, p, o)
        IN /\ status' = r.status
           /\ calls' = <<r.call>>
           /\ UNCHANGED repo
           /\ AdapterOnly
AdapterBranches ==
    \E o \in BranchOutcomes(isRepo) :
        /\ calls' = <<ListBranches(isRepo, o).call>>
        /\ UNCHANGED <<repo, status>>
        /\ AdapterOnly

NextAdapter ==
    \/ AdapterList
    \/ AdapterAdd
    \/ AdapterRemove
    \/ AdapterPrune
    \/ AdapterPruneDryRun
    \/ AdapterStatus
    \/ AdapterBranches

SpecAdapter == Init /\ [][NextAdapter]_vars

\* ------------------------------------------------------------ properties
\* the modal surfaces that are visible
VisibleModals ==
    {n \in {"ConfirmDialog", "CreateForm", "ActionMenu"} :
        \/ n = "ConfirmDialog" /\ confirmDialog.visible
        \/ n = "CreateForm" /\ createForm.visible
        \/ n = "ActionMenu" /\ actionMenu.visible}
\* more than one of them is
SeveralModals ==
    \/ confirmDialog.visible /\ (createForm.visible \/ actionMenu.visible)
    \/ createForm.visible /\ actionMenu.visible
\* this step put message m of a returned command in flight
Gained(m) == CopiesIn(m, pending') > CopiesIn(m, pending)
\* this step handed the pending message m to Update
Delivered(m) == running' /\ CopiesIn(m, pending') < CopiesIn(m, pending)
\* this step was an input event of the rendering host
InputEvent ==
    \/ \E k \in Keys : KeyMsg(k)
    \/ \E b \in MouseButtons, x \in MouseXs, y \in MouseYs : MouseMsg(b, x, y)
    \/ \E sz \in Sizes : WindowSizeMsg(sz[1], sz[2])

\* C1: in every reachable state at most one of the Action Picker, the
\* Confirmation Dialog and the Creation Form is visible.
C1_AtMostOneModal == Cardinality(VisibleModals) <= 1

\* C2: while any modal is visible, no input event (key press, pointer click,
\* pointer wheel, resize) changes the list selection, the details item or
\* the active tab.
C2_ModalOwnsInput ==
    [][(VisibleModals # {} /\ InputEvent) =>
          /\ list'.selected = list.selected
          /\ details'.item = details.item
          /\ tabs'.active = tabs.active]_vars

\* C3: Ctrl+C at any nesting depth (no modal, Action Picker, Creation Form
\* or Confirmation Dialog open) sets quitting and returns the quit command,
\* and no modal processes the key: all three keep their state.
C3_InterruptQuits ==
    [][KeyMsg("ctrl+c") =>
          /\ quitting'
          /\ Gained(QuitMsg)
          /\ UNCHANGED <<actionMenu, createForm, confirmDialog>>]_vars

\* Ctrl+C arrived while the Confirmation Dialog was open
C3_Witness == confirmDialog.visible /\ quitting /\ BagIn(QuitMsg, pending)

\* the modal of highest priority handled key k: Ctrl+C quits and leaves
\* it alone, any other key has the effect of that modal's Update
TopHandled(k) ==
    IF k = "ctrl+c"
    THEN quitting' /\ UNCHANGED <<confirmDialog, createForm, actionMenu>>
    ELSE IF confirmDialog.visible
    THEN confirmDialog' = ConfirmDialog_Update(confirmDialog, k).s
    ELSE createForm' = CreateForm_Update(createForm, k).s
\* the modals below the one of highest priority, and the surfaces below
\* all modals, keep their state
LowerUntouched ==
    /\ confirmDialog.visible => UNCHANGED <<createForm, actionMenu>>
    /\ UNCHANGED <<actionMenu, list, details, tabs>>

\* C4: when more than one modal is visible, a key goes to the one of highest
\* priority (Confirmation Dialog, then Creation Form, then Action Picker):
\* that modal handles it, and every modal of lower priority, the list, the
\* details and the tabs keep their state.  A key step takes no message out
\* of flight, so the steps that do are not looked at; of the others, each
\* is a key handled that way, or it is not a key step.
C4_KeyPriority ==
    [][(SeveralModals /\ running' /\ pending \sqsubseteq pending') =>
          \/ /\ LowerUntouched
             /\ \E k \in Keys : TopHandled(k) /\ KeyMsg(k)
          \/ ~\E k \in Keys : KeyMsg(k)]_vars

\* the Confirmation Dialog opened over the Creation Form and then took a
\* key: Show leaves the cancel button selected, a key moved the selection
C4_Witness ==
    confirmDialog.visible /\ createForm.visible /\ confirmDialog.selected = 0

\* the adapter calls of kind op made by this step
CallsOf(cs, op) == {i \in DOMAIN cs : cs[i].op = op}
\* the keys that resolve the Confirmation Dialog d on its confirm side
ConfirmKey(d) == KeyMsg("y") \/ (d.selected = 0 /\ KeyMsg("enter"))
\* and on its cancel side
CancelKey(d) == KeyMsg("esc") \/ KeyMsg("n") \/ (d.selected = 1 /\ KeyMsg("enter"))

\* C5: end-to-end delete of the entry with path P.  Enter on the list opens
\* the Action Picker for the selected entry; Enter on its 'delete' action
\* defers ActionExecutedMsg{delete, entry}; handling it opens the
\* Confirmation Dialog for the entry with force off; keys other than the
\* force toggle keep force off; confirming defers the result {confirmed,
\* force false, entry}; handling that makes exactly one remove call, with
\* {path P, force false}, and when the call succeeds the refresh that
\* follows leaves no entry with path P in the list.
C5_DeleteFlow ==
    [][/\ (AtBase /\ OnListTab(App) /\ List_SelectedItem(list) # NilItem
              /\ KeyMsg("enter")) =>
             actionMenu' = [visible |-> TRUE, item |-> List_SelectedItem(list),
                            selected |-> 0]
       /\ (actionMenu.visible /\ ~confirmDialog.visible /\ ~createForm.visible
              /\ defaultWorktreeActions[actionMenu.selected + 1] = "delete"
              /\ KeyMsg("enter")) =>
             /\ Gained(ActionExecutedMsg("delete", actionMenu.item))
             /\ calls' = <<>>
       /\ \A m \in PendingOf("ActionExecutedMsg") :
             (m.action = "delete" /\ Delivered(m)) =>
                /\ confirmDialog'.visible
                /\ confirmDialog'.data = ItemData(m.item)
                /\ ~confirmDialog'.forceSelected
                /\ calls' = <<>>
       /\ (confirmDialog.visible /\ confirmDialog'.visible
              /\ confirmDialog'.forceSelected # confirmDialog.forceSelected) =>
             \A k \in Keys \ {"f"} : ~KeyMsg(k)
       /\ (confirmDialog.visible /\ confirmDialog.data.kind = "item"
              /\ ~confirmDialog.forceSelected /\ ConfirmKey(confirmDialog)) =>
             /\ Gained(ConfirmDialogResultMsg(TRUE, FALSE, confirmDialog.data))
             /\ calls' = <<>>
       /\ \A m \in PendingOf("ConfirmDialogResultMsg") :
             (m.confirmed /\ m.data.kind = "item" /\ ~m.force /\ Delivered(m)) =>
                /\ CallsOf(calls', "remove") = {1}
                /\ calls'[1].path = m.data.item.ID
                /\ calls'[1].force = FALSE
                /\ calls'[1].result = "ok" =>
                      /\ Len(calls') = 2 /\ calls'[2].op = "list"
                      /\ \A i \in DOMAIN list'.items :
                            list'.items[i].ID # m.data.item.ID
                      /\ \A i \in DOMAIN worktrees' :
                            worktrees'[i].Path # m.data.item.ID]_vars

\* a remove call without force succeeded and the refreshed list shows the
\* one entry that is left
C5_Witness ==
    /\ Len(calls) = 2
    /\ calls[1].op = "remove" /\ ~calls[1].force /\ calls[1].result = "ok"
    /\ calls[1].path = <<"w">>
    /\ calls[2].result = "ok"
    /\ Len(list.items) = 1

\* C6: a remove or prune call is made only while handling a result of the
\* Confirmation Dialog that says confirmed, and such a result comes only
\* from Enter on the confirm button or 'y' while the dialog is visible;
\* cancelling (Esc, 'n', Enter on the cancel button) yields a result with
\* Confirmed=false, and neither the cancelling key nor the handling of that
\* result makes an adapter call or changes the snapshot or the list.
C6_OnlyAfterConfirm ==
    [][/\ (CallsOf(calls', "remove") \cup CallsOf(calls', "prune") # {}) =>
             \E m \in PendingOf("ConfirmDialogResultMsg") :
                m.confirmed /\ Delivered(m)
       /\ \A m \in BagToSet(pending') :
             (m.type = "ConfirmDialogResultMsg" /\ m.confirmed /\ Gained(m)) =>
                confirmDialog.visible /\ ConfirmKey(confirmDialog)
       /\ (confirmDialog.visible /\ CancelKey(confirmDialog)) =>
             /\ \E m \in BagToSet(pending') :
                   m.type = "ConfirmDialogResultMsg" /\ ~m.confirmed /\ Gained(m)
             /\ calls' = <<>>
             /\ UNCHANGED <<worktrees, list, repo>>
       /\ \A m \in PendingOf("ConfirmDialogResultMsg") :
             (~m.confirmed /\ Delivered(m)) =>
                /\ calls' = <<>>
                /\ UNCHANGED <<worktrees, list, repo>>]_vars

\* Enter on the cancel button of the delete dialog: the result that is in
\* flight says not confirmed, and carries the entry
C6_Witness ==
    \E m \in PendingOf("ConfirmDialogResultMsg") :
        ~m.confirmed /\ m.data.kind = "item" /\ calls = <<>>

\* C7: when a remove, prune or add call fails, error Feedback is shown, no
\* list call follows, and the worktree collection, the list (items and
\* selection) and the recorded load error are what they were.
C7_FailedMutation ==
    [][\A i \in DOMAIN calls' :
          (calls'[i].op \in {"remove", "prune", "add"} /\ calls'[i].result # "ok") =>
             /\ feedback'.visible /\ feedback'.feedbackType = FeedbackError
             /\ Gained(ClearFeedbackMsg)
             /\ calls' = <<calls'[i]>>
             /\ UNCHANGED <<worktrees, gitError, repo>>
             /\ list'.items = list.items /\ list'.selected = list.selected]_vars

\* the add call of a submitted form failed
C7_Witness ==
    /\ calls # <<>> /\ calls[1].op = "add" /\ calls[1].result = "failed"
    /\ calls[1].path # EmptyStr
    /\ feedback.visible /\ feedback.feedbackType = FeedbackError

\* C8: when a confirmed remove or prune call succeeds, the same step
\* reloads the worktree collection and the list from the adapter, and
\* success Feedback is visible afterwards.
C8_SuccessRefreshes ==
    [][\A i \in DOMAIN calls' :
          (calls'[i].op \in {"remove", "prune"} /\ calls'[i].result = "ok") =>
             /\ i = 1 /\ Len(calls') = 2 /\ calls'[2].op = "list"
             /\ worktrees' = ListWorktrees(repo', isRepo, calls'[2].result).worktrees
             /\ list'.items = [j \in DOMAIN worktrees' |-> worktreeToListItem(worktrees'[j])]
             /\ gitError' = ListWorktrees(repo', isRepo, calls'[2].result).err
             /\ feedback'.visible /\ feedback'.feedbackType = FeedbackSuccess]_vars

\* prune dropped a stale entry and the reload shows the rest
C8_Witness ==
    /\ Len(calls) = 2 /\ calls[1].op = "prune" /\ calls[1].result = "ok"
    /\ calls[2].result = "ok"
    /\ Len(worktrees) = 1 /\ Len(list.items) = 1
    /\ feedback.visible /\ feedback.feedbackType = FeedbackSuccess

\* C9: Enter on a valid Creation Form defers one CreateFormSubmittedMsg
\* with the form's values; handling it makes exactly one add call, with
\* those values; when the call succeeds the engine either reloads the
\* snapshot in place, or records the submitted path as the hand-off target,
\* sets quitting and returns the quit command; when the session ends the
\* host is given the recorded target.
C9_SubmitCreates ==
    [][/\ (FormTakesKeys(App) /\ validate(createForm) = "" /\ KeyMsg("enter")) =>
             /\ Gained(CreateFormSubmittedMsg(createForm.branch, createForm.path,
                                              createForm.createBranch))
             /\ BagCardinality(pending') = BagCardinality(pending) + 1
             /\ calls' = <<>>
       /\ \A m \in PendingOf("CreateFormSubmittedMsg") :
             Delivered(m) =>
                /\ CallsOf(calls', "add") = {1}
                /\ calls'[1].path = m.path
                /\ calls'[1].branch = m.branch
                /\ calls'[1].createBranch = m.createBranch
                /\ calls'[1].result = "ok" =>
                      \/ /\ Len(calls') = 2 /\ calls'[2].op = "list"
                         /\ worktrees' =
                               ListWorktrees(repo', isRepo, calls'[2].result).worktrees
                      \/ /\ Len(calls') = 1
                         /\ targetPath' = m.path
                         /\ quitting'
                         /\ Gained(QuitMsg)
       /\ (running /\ ~running' /\ PendingOf("QuitMsg") # {}) =>
             printed' = targetPath]_vars

\* the session ended after a successful creation and the host was given
\* the new worktree's path
C9_Witness ==
    /\ ~running /\ quitting
    /\ printed # EmptyStr /\ printed = targetPath
    /\ InRepo(repo, printed)

\* C10: a failed list call leaves the worktree collection and the list
\* items empty, the selection 0, and the error recorded.
C10_FailedLoadClears ==
    \A i \in DOMAIN calls :
        (calls[i].op = "list" /\ calls[i].result # "ok") =>
           /\ worktrees = <<>>
           /\ list.items = <<>>
           /\ list.selected = 0
           /\ gitError = calls[i].result

\* the reload after a successful removal failed
C10_Witness ==
    /\ Len(calls) = 2 /\ calls[1].op = "remove" /\ calls[1].result = "ok"
    /\ calls[2].op = "list" /\ calls[2].result = "failed"
    /\ gitError = "failed"

\* C11: the Detail Surface always renders the currently selected record:
\* after every processed event the details item is the list's selected item,
\* and is absent when the list is empty
C11_DetailsShowSelected == details.item = List_SelectedItem(list)

\* C12: Enter on 'delete' in the Action Picker closes the picker and defers
\* ActionExecutedMsg{delete} for the entry the picker holds; while the picker
\* stays open that entry does not change, whatever happens to the list; and
\* handling the message opens the Confirmation Dialog as a danger dialog on
\* cancel, with the force option enabled and force off, for the entry of
\* the message.
C12_DeleteOpensDialog ==
    [][/\ (actionMenu.visible /\ ~confirmDialog.visible /\ ~createForm.visible
              /\ actionMenu.selected = 2 /\ KeyMsg("enter")) =>
             /\ ~actionMenu'.visible
             /\ Gained(ActionExecutedMsg("delete", actionMenu.item))
       /\ (actionMenu.visible /\ actionMenu'.visible) =>
             actionMenu'.item = actionMenu.item
       /\ \A m \in PendingOf("ActionExecutedMsg") :
             (m.action = "delete" /\ Delivered(m)) =>
                confirmDialog' =
                    [visible |-> TRUE, title |-> "Delete Worktree?",
                     confirmLabel |-> "Delete", dangerMode |-> TRUE,
                     forceOption |-> TRUE, forceSelected |-> FALSE,
                     selected |-> 1, data |-> ItemData(m.item)]]_vars
\* the dialog has just opened for an entry that is not the selected one
C12_Witness ==
    /\ confirmDialog.visible /\ confirmDialog.forceOption /\ ~actionMenu.visible
    /\ confirmDialog.data.kind = "item"
    /\ confirmDialog.data.item # NilItem
    /\ List_SelectedItem(list) # NilItem
    /\ confirmDialog.data.item # List_SelectedItem(list)
    /\ calls = <<>>

\* C13: quitting is a terminal flag: once it is true, no later event or
\* message resets it to false.
C13_QuittingIsTerminal == [][quitting => quitting']_vars
\* quitting is set and the program, which has not read the quit message yet,
\* still takes events: the picker has been opened and moved to its last row
C13_Witness ==
    /\ quitting /\ running
    /\ actionMenu.visible /\ actionMenu.selected = 2

\* C14: the Action Picker becomes visible only on an Enter key received
\* while no modal is visible, the active tab is Worktrees or Branches and the
\* list has at least one item; it is then bound to the entry selected at that
\* moment.
C14_PickerOpensOnEnter ==
    [][(~actionMenu.visible /\ actionMenu'.visible) =>
          /\ ~confirmDialog.visible /\ ~createForm.visible
          /\ tabs.active \in {TabWorktrees, TabBranches}
          /\ Len(list.items) >= 1
          /\ KeyMsg("enter")
          /\ actionMenu'.item = list.items[list.selected + 1]]_vars
\* the picker is open on the Branches tab for the second entry
C14_Witness ==
    /\ actionMenu.visible /\ tabs.active = TabBranches
    /\ Len(list.items) = 2 /\ actionMenu.item = list.items[2]

\* C15: the 'n' key opens the Creation Form only when no modal is visible,
\* the active tab is Worktrees and the load did not end in a "not a
\* repository" error, and then it does open it; nothing else makes the form
\* visible.
C15_FormOpensOnWorktrees ==
    [][/\ (~createForm.visible /\ createForm'.visible) =>
             /\ ~confirmDialog.visible /\ ~actionMenu.visible
             /\ tabs.active = TabWorktrees
             /\ gitError # "notrepo"
             /\ KeyMsg("n")
       /\ (~createForm.visible /\ ~confirmDialog.visible /\ ~actionMenu.visible
              /\ tabs.active = TabWorktrees /\ gitError # "notrepo"
              /\ KeyMsg("n")) =>
             createForm'.visible]_vars
\* the form is open although the load failed, with another error
C15_Witness == createForm.visible /\ gitError = "failed"

\* C16: the Confirmation Dialog always opens on the cancel side.  The dialog
\* is shown by ShowDanger when ActionExecutedMsg{delete} is handled and by
\* ShowWithData on 'p'; after either, whatever state the dialog was in
\* (never used, hidden after a use that ended on confirm, or still visible
\* with the choice moved to confirm), it is visible with the choice on
\* cancel (index 1).
C16_ShowSelectsCancel ==
    [][/\ \A m \in PendingOf("ActionExecutedMsg") :
             (m.action = "delete" /\ Delivered(m)) =>
                confirmDialog'.visible /\ confirmDialog'.selected = 1
       /\ (~confirmDialog.visible /\ confirmDialog'.visible) =>
             confirmDialog'.selected = 1]_vars
\* the dialog is open on cancel while the confirmed result of its previous
\* use is still in flight
C16_Witness ==
    /\ confirmDialog.visible /\ confirmDialog.selected = 1
    /\ \E m \in PendingOf("ConfirmDialogResultMsg") : m.confirmed

\* a key that resolves the Confirmation Dialog is being handled
ResolvingKey ==
    confirmDialog.visible /\ \E k \in {"enter", "esc", "y", "n"} : KeyMsg(k)

C18_ForceOnlyWhenEnabled ==
    [][/\ confirmDialog'.forceSelected =>
             /\ confirmDialog'.visible
             /\ confirmDialog'.forceOption
             /\ confirmDialog'.data.kind = "item"
       /\ \A m \in BagToSet(pending') :
             (m.type = "ConfirmDialogResultMsg" /\ m.force /\ Gained(m)) =>
                /\ confirmDialog.visible
                /\ confirmDialog.forceOption
                /\ confirmDialog.forceSelected
                /\ m.data = confirmDialog.data
                /\ m.data.kind = "item"]_vars
\* a prune dialog is open, without the force option and with force off,
\* while the forced result of the delete dialog before it is in flight
C18_Witness ==
    /\ confirmDialog.visible /\ confirmDialog.data.kind = "prune"
    /\ ~confirmDialog.forceOption /\ ~confirmDialog.forceSelected
    /\ \E m \in PendingOf("ConfirmDialogResultMsg") : m.force

\* C19: in every reachable state the list selection is a valid index of the
\* current sequence, or 0 when the sequence is empty.
C19_SelectionValid ==
    IF Len(list.items) = 0
    THEN list.selected = 0
    ELSE list.selected >= 0 /\ list.selected <= Len(list.items) - 1
\* the last of three rows is selected in a list two rows high
C19_Witness ==
    /\ Len(list.items) = 3 /\ list.selected = 2
    /\ list.height = 2 /\ list.offsetY = 1

\* C20: replacing the list's backing sequence clamps the selection into the
\* new bounds: it is unchanged if it is still a valid index, it becomes the
\* last valid index if it overflows the new sequence, and 0 if the new
\* sequence is empty.
C20_SetItemsClamps ==
    [][list'.items # list.items =>
          list'.selected =
              IF Len(list'.items) = 0 THEN 0
              ELSE IF list.selected >= Len(list'.items)
                   THEN Len(list'.items) - 1
                   ELSE list.selected]_vars
\* the sequence has been replaced by one of a single entry, shorter than any
\* the session starts with unless it starts empty, and the selection is on
\* that entry
C20_Witness ==
    /\ list.items = ListItems(1) /\ list.selected = 0
    /\ worktrees # <<>>

\* C21: on a populated list, whatever the index and the height, PageDown
\* moves the selection down by the page, clamped at the last index, and so
\* strictly increases it unless it is on the last index already; PageUp
\* moves it up by the page, clamped at 0, and strictly decreases it unless
\* it is 0 already; the page is the height, or 1 when the height is zero.
C21_PagingMakesProgress ==
    Len(list.items) > 0 =>
        LET page == IF list.height = 0 THEN 1 ELSE list.height
            last == Len(list.items) - 1
            dn == List_UpdateKey(list, "pgdown")
            up == List_UpdateKey(list, "pgup")
        IN /\ dn = [list EXCEPT !.selected = Min(list.selected + page, last)]
           /\ list.selected < last => dn.selected > list.selected
           /\ up = [list EXCEPT !.selected = Max(list.selected - page, 0)]
           /\ list.selected > 0 => up.selected < list.selected
\* a list of three rows with no height set and the middle row selected:
\* both a page down and a page up have a row to go to
C21_Witness ==
    /\ Len(list.items) = 3 /\ list.selected = 1 /\ list.height = 0

\* C22: single-step movement never wraps.  In every reachable state, a step
\* up (key up, 'k', wheel up) with the first list entry selected and a step
\* down (key down, 'j', wheel down) with the last one selected leave the
\* list as it is, whichever surface the engine hands the event to; and with
\* the Action Picker taking the keys, up and 'k' on its first action and
\* down and 'j' on its last leave the picker as it is.
C22_NoWrapAround ==
    /\ list.selected = 0 =>
          /\ \A k \in {"up", "k"} : UpdateKey(App, k).a.list = list
          /\ \A x \in MouseXs, y \in MouseYs :
                UpdateMouse(App, "wheelup", x, y).list = list
    /\ list.selected = Len(list.items) - 1 =>
          /\ \A k \in {"down", "j"} : UpdateKey(App, k).a.list = list
          /\ \A x \in MouseXs, y \in MouseYs :
                UpdateMouse(App, "wheeldown", x, y).list = list
    /\ (actionMenu.visible /\ actionMenu.selected = 0) =>
          \A k \in {"up", "k"} : UpdateKey(App, k).a.actionMenu = actionMenu
    /\ (actionMenu.visible
           /\ actionMenu.selected = Len(defaultWorktreeActions) - 1) =>
          \A k \in {"down", "j"} : UpdateKey(App, k).a.actionMenu = actionMenu
\* the picker is open on its last action over a list of two entries with
\* the first selected, and the page is sized so that the pointer reaches it
C22_Witness ==
    /\ actionMenu.visible /\ actionMenu.selected = 2
    /\ Len(list.items) = 2 /\ list.selected = 0 /\ list.height > 0

\* the rectangles of the surfaces: the tab bar is row 0 over the columns of
\* its tabs, the list has its recorded offset and size, and the details lie
\* right of the list, one column apart, from the same row on
InTabBar(x, y) ==
    /\ y = 0
    /\ \E i \in 1..TabCount :
          x >= GetTabPositions[i].StartX /\ x < GetTabPositions[i].EndX
InDetails(x, y) ==
    /\ x >= list.offsetX + list.width + 1
    /\ x < list.offsetX + list.width + 1 + details.width
    /\ y >= list.offsetY /\ y < list.offsetY + details.height
OutsideEverySurface(x, y) ==
    ~InTabBar(x, y) /\ ~List_IsInBounds(list, x, y) /\ ~InDetails(x, y)

\* C23: in every reachable state, a pointer event of any kind, click or
\* wheel, at coordinates outside every surface's rectangle has no effect:
\* Update leaves the list selection, the details item and the active tab
\* unchanged.
C23_PointerOutsideDropped ==
    \A b \in MouseButtons, x \in MouseXs, y \in MouseYs :
        OutsideEverySurface(x, y) =>
            LET a == UpdateMouse(App, b, x, y)
            IN /\ a.list.selected = list.selected
               /\ a.details.item = details.item
               /\ a.tabs.active = tabs.active

\* C24: in every reachable state of the list, a click at column x and row y
\* that lies inside the list's rectangle (offset and size as recorded)
\* selects index y minus the recorded Y offset, provided that index is below
\* the item count; a click outside the rectangle, on a row with no item or
\* on an empty list leaves the selection unchanged; nothing else of the list
\* changes.
C24_ClickSelectsRow ==
    \A x \in -1..3, y \in -1..(MaxItems + 2) :
        LET inside == /\ x >= list.offsetX /\ x < list.offsetX + list.width
                      /\ y >= list.offsetY /\ y < list.offsetY + list.height
            row == y - list.offsetY
        IN List_UpdateMouse(list, "left", x, y) =
              [list EXCEPT !.selected =
                  IF inside /\ row < Len(list.items) THEN row ELSE @]
\* the second of three rows is selected in a list that starts one row down
\* and is three rows high: a click on screen row 2 selects it
C24_Witness ==
    /\ Len(list.items) = 3 /\ list.selected = 1
    /\ list.offsetY = 1 /\ list.height = 3 /\ list.width = 2

\* C25: with w and h the width and height of the last resize event, both
\* panes have height max(0, h - 4); the list width is floor(40 * w / 100)
\* and is not more than the details width; the details width is
\* max(0, w - list width - 1); neither width is negative and the two
\* together do not exceed w.
C25_PaneSizes ==
    /\ list.height = Max(0, height - 4)
    /\ details.height = Max(0, height - 4)
    /\ list.width = (40 * width) \div 100
    /\ list.width <= details.width
    /\ details.width = Max(0, width - list.width - 1)
    /\ list.width >= 0 /\ details.width >= 0
    /\ list.width + details.width <= width
\* a resize to 13 by 9 has been handled: the list is 5 wide, the details 7
C25_Witness ==
    /\ width = 13 /\ height = 9
    /\ list.width = 5 /\ details.width = 7 /\ list.height = 5

\* C26: in every reachable state of a visible Creation Form whose branch or
\* path field is empty, Enter is rejected: the form stays visible, an error
\* message is set, which is "Branch name is required" when the branch is
\* empty and 'create new branch' is enabled, the branch, the path, the
\* toggle and everything but the message are unchanged, and no command,
\* hence no submission message, is returned.
C26_InvalidSubmitRejected ==
    (createForm.visible
        /\ (createForm.branch = EmptyStr \/ createForm.path = EmptyStr)) =>
        LET u == CreateForm_Update(createForm, "enter")
        IN /\ u.cmd = NoCmd
           /\ u.s.visible
           /\ u.s.errorMessage # ""
           /\ (createForm.branch = EmptyStr /\ createForm.createBranch) =>
                 u.s.errorMessage = "Branch name is required"
           /\ u.s = [createForm EXCEPT !.errorMessage = u.s.errorMessage]
\* a submit with a branch and no path has been rejected: the form is open,
\* reuses an existing branch and says what is missing
C26_Witness ==
    /\ createForm.visible /\ createForm.errorMessage = "Path is required"
    /\ createForm.branch # EmptyStr /\ createForm.path = EmptyStr
    /\ ~createForm.createBranch
    /\ pending = EmptyBag

\* C27: in every reachable state of a visible Creation Form with a
\* non-empty branch and a non-empty path, in either toggle mode, Enter
\* closes the form and returns one command, whose message carries the
\* branch, the path and the toggle as they stand in the form.
C27_ValidSubmitEmits ==
    (createForm.visible
        /\ createForm.branch # EmptyStr /\ createForm.path # EmptyStr) =>
        LET u == CreateForm_Update(createForm, "enter")
        IN /\ ~u.s.visible
           /\ u.cmd = << [Msg0 EXCEPT !.type = "CreateFormSubmittedMsg",
                                      !.branch = createForm.branch,
                                      !.path = createForm.path,
                                      !.createBranch = createForm.createBranch] >>
\* a form that reuses a branch, with a path that differs from the branch,
\* has been submitted: it is hidden and its one message is in flight
C27_Witness ==
    /\ ~createForm.visible
    /\ BagCardinality(pending) = 1
    /\ \E m \in PendingOf("CreateFormSubmittedMsg") :
          /\ ~m.createBranch /\ m.branch # m.path
          /\ m.branch = createForm.branch /\ m.path = createForm.path

\* C28: the text fields of the Creation Form have independent cursor
\* positions: in every reachable state with the focus on the branch field,
\* cycling the focus to the path field and back leaves the cursor where it
\* was in the branch field, and likewise from the path field to the branch
\* field and back.
C28_IndependentCursors ==
    createForm.visible =>
        /\ createForm.focused = FieldBranch =>
              CreateForm_Update(CreateForm_Update(createForm, "tab").s,
                                "shift+tab").s.cursorPos = createForm.cursorPos
        /\ createForm.focused = FieldPath =>
              CreateForm_Update(CreateForm_Update(createForm, "shift+tab").s,
                                "tab").s.cursorPos = createForm.cursorPos

\* C29: modal state is fully reset on Hide: a hidden Creation Form has an
\* empty branch and path, its toggle and focus at their defaults and no
\* error; a hidden Action Picker holds no subject item and its selection
\* is 0.
C29_HiddenModalsAreReset ==
    /\ ~createForm.visible =>
          /\ createForm.branch = EmptyStr /\ createForm.path = EmptyStr
          /\ createForm.createBranch /\ createForm.focused = FieldBranch
          /\ createForm.errorMessage = ""
    /\ ~actionMenu.visible =>
          actionMenu.item = NilItem /\ actionMenu.selected = 0

\* C30: a clear signal clears whatever message is current when it is
\* delivered.  When a message was superseded before its timer fired, the
\* older timer's signal hides the newer message, whose own timer is still
\* running: every step that takes a clear signal out of flight leaves the
\* feedback hidden and empty, however many clear signals remain in flight.
C30_OlderTimerClearsNewer ==
    [][CopiesIn(ClearFeedbackMsg, pending') < CopiesIn(ClearFeedbackMsg, pending) =>
          ~feedback'.visible /\ feedback'.message = ""]_vars
\* no message is shown although a timer is still running: the message that
\* timer belongs to went away before its time
C30_Witness ==
    /\ ~feedback.visible /\ feedback.message = ""
    /\ CopiesIn(ClearFeedbackMsg, pending) >= 1

\* C31: every Show of a Feedback message puts exactly one clear signal in
\* flight; when every signal in flight is eventually delivered and messages
\* stop being shown from some point on, the feedback ends up invisible with
\* an empty message and stays so.
C31_FeedbackEventuallyClears ==
    /\ [][feedback'.visible =>
            CopiesIn(ClearFeedbackMsg, pending') =
                CopiesIn(ClearFeedbackMsg, pending) + 1]_vars
    /\ (<>[][~feedback'.visible]_vars) =>
            <>[](~feedback.visible /\ feedback.message = "")
\* a message on screen whose one timer is running
C31_Witness ==
    /\ feedback.visible
    /\ CopiesIn(ClearFeedbackMsg, pending) = 1

\* the lines of a text that are not blank, trimmed
IsNonBlank(line) == TrimSpace(line) # EmptyStr
NonBlankLines(text) ==
    LET ls == SelectSeq(Split(text, "\n"), IsNonBlank)
    IN [i \in 1..Len(ls) |-> TrimSpace(ls[i])]
IsWellFormedLine(line) == \E wt \in WorktreeRecords : line = FormatWorktree(wt)
\* C32: when every non-blank line of the text is a bare, detached or
\* branch-annotated line, the parser yields one record per non-blank line,
\* in the order of the lines, and the i-th record is exactly the record the
\* i-th line was printed from: its flags, path, hash and branch come from
\* that line and from no other.
C32_OneRecordPerLine ==
    LET ls == NonBlankLines(output)
    IN (output # EmptyStr /\ \A i \in 1..Len(ls) : IsWellFormedLine(ls[i])) =>
          /\ Len(worktrees) = Len(ls)
          /\ \A i \in 1..Len(ls) : \A wt \in WorktreeRecords :
                ls[i] = FormatWorktree(wt) => worktrees[i] = wt
\* three well-formed lines of three different shapes were parsed
C32_Witness ==
    /\ Len(NonBlankLines(output)) = 3
    /\ Len(worktrees) = 3
    /\ \E i, j, k \in 1..3 :
          /\ worktrees[i].IsBare
          /\ worktrees[j].IsDetached
          /\ worktrees[k].Branch = SampleBranch
          /\ worktrees[k].Path = <<"/", "b", " ", " ", "c">>

IsGarbage(line) == TrimSpace(line) = EmptyStr \/ line \in GarbageLines
IsNotGarbage(line) == ~IsGarbage(line)
\* C33: blank lines and lines in none of the three shapes leave no record,
\* raise no error and do not disturb the lines after them: the records are
\* those of the remaining lines, each parsed by itself, in order.
C33_GarbageSkipped ==
    LET kept == SelectSeq(Split(output, "\n"), IsNotGarbage)
    IN output # EmptyStr =>
          /\ gitError = "nil"
          /\ worktrees = [i \in 1..Len(kept) |-> parseWorktreeLine(TrimSpace(kept[i]))]
\* a line in none of the shapes came first and a later line was parsed
C33_Witness ==
    /\ LineCount(output) >= 2
    /\ Split(output, "\n")[1] = <<"j", "u", "n", "k">>
    /\ Len(worktrees) >= 1

\* C34: within one snapshot no two worktree records, and no two list
\* items, have the same path, whatever text the external tool returned.
C34_PathsUnique ==
    /\ \A i, j \in 1..Len(worktrees) :
          i # j => worktrees[i].Path # worktrees[j].Path
    /\ \A i, j \in 1..Len(list.items) :
          i # j => list.items[i].ID # list.items[j].ID

\* C35: no record of the parser is both bare and detached, and a bare
\* record has an empty branch and an empty commit hash, for any text.
C35_FlagsExclusive ==
    output # EmptyStr =>
        \A i \in 1..Len(worktrees) :
            /\ ~(worktrees[i].IsBare /\ worktrees[i].IsDetached)
            /\ worktrees[i].IsBare =>
                  worktrees[i].Branch = EmptyStr /\ worktrees[i].CommitHash = EmptyStr
\* a bare record was made from a line that also has a hash and a bracket
C35_Witness ==
    /\ output # EmptyStr
    /\ \E i \in 1..Len(worktrees) :
          /\ worktrees[i].IsBare
          /\ worktrees[i].Path =
                <<"/", "c", " ", " ">> \o SampleHash \o <<" ", "[">>
                    \o SampleBranch \o <<"]">>

ExampleStatus ==
    <<" ", "M", " ", "a">> \o TxtSuffix \o <<"\n">>
    \o <<"M", " ", " ", "b">> \o TxtSuffix \o <<"\n">>
    \o <<"?", "?", " ", "c">> \o TxtSuffix \o <<"\n">>
    \o <<"M", "M", " ", "d">> \o TxtSuffix \o <<"\n">>
    \o <<"A", " ", " ", "e">> \o TxtSuffix \o <<"\n">>
\* C36: untrackedCount is the number of lines that start with "??";
\* stagedCount is the number of other lines of two or more characters whose
\* first character is neither a space nor "?", modifiedCount the number of
\* those whose second character is neither a space nor "?", so a line adds
\* at most two to their sum; shorter lines add nothing.  The five-line
\* example yields modified 2, staged 3, untracked 1.
C36_StatusCounts ==
    LET ls == Split(output, "\n")
        Long == {i \in 1..Len(ls) : Len(ls[i]) >= 2}
        Untracked == {i \in Long : ls[i][1] = "?" /\ ls[i][2] = "?"}
        Staged == {i \in Long \ Untracked : ls[i][1] \notin {" ", "?"}}
        Modified == {i \in Long \ Untracked : ls[i][2] \notin {" ", "?"}}
    IN /\ status.UntrackedCount = Cardinality(Untracked)
       /\ status.StagedCount = Cardinality(Staged)
       /\ status.ModifiedCount = Cardinality(Modified)
       /\ status.ModifiedCount + status.StagedCount <= 2 * Cardinality(Long)
       /\ output = ExampleStatus =>
             status = [ModifiedCount |-> 2, StagedCount |-> 3, UntrackedCount |-> 1]
\* the five-line example was parsed
C36_Witness ==
    /\ output = ExampleStatus
    /\ status = [ModifiedCount |-> 2, StagedCount |-> 3, UntrackedCount |-> 1]

C38_NoCallsAfterQuit ==
    [][quitting => calls' = <<>>]_vars

\* text with one character put in at position pos (counted from 0)
WithCharAt(text, pos, char) ==
    SubSeq(text, 1, pos) \o <<char>> \o SubSeq(text, pos + 1, Len(text))
C40_CursorInField ==
    LET f == createForm
    IN /\ f.cursorPos >= 0
       /\ f.focused = FieldBranch => f.cursorPos <= Len(f.branch)
       /\ f.focused = FieldPath => f.cursorPos <= Len(f.path)
       /\ f.focused = FieldCreateNewBranch => f.cursorPos = 0
\* focus went from a filled branch field to the empty path field
C40_Witness ==
    /\ createForm.visible
    /\ Len(createForm.branch) = 2
    /\ createForm.path = EmptyStr
    /\ createForm.focused = FieldPath
    /\ createForm.cursorPos = 0

====
